---- MODULE Spec2Model ----
(***************************************************************************)
(* A model of the download engine of the BitTorrent client:                *)
(*   - FileDownloader::download with its RequestEmitter and PieceComposer  *)
(*     (src/src/downloader/file_downloader.rs),                            *)
(*   - request_complete_file (src/src/downloader/request_download.rs),     *)
(*   - PieceComposer::append_block on its own                              *)
(*     (src/src/downloader/file_downloader/piece_composer.rs).             *)
(* Each subsystem has its own specification over the shared variables; the *)
(* variables of the other subsystems stay at their idle values.            *)
(***************************************************************************)
EXTENDS Integers, Sequences, FiniteSets, TLC

(***************************************************************************)
(* Bounds of the model.                                                    *)
(***************************************************************************)
MaxFileLength == 4
MaxPieceLength == 3
MaxBlockLength == 2
MaxQueueLength == 2
MaxPieceCount == 17
MaxBitfieldLength == 3
MaxUnreadFrames == 3
MaxUnreadHandshakes == 2
MaxAddrs == 3
MaxDepth == 3
MaxStringLength == 2
MaxInputLength == 4
MaxPiecesLength == 85
MaxPeers == 2
MaxSends == 2

\* The bytes a file is made of, and the bytes a peer puts into a block.  The
\* output buffer starts zero-filled (vec![0; file_length]), so a file byte is
\* never 0 here and a slot that was never written is recognisable.
FileBytes == {1, 2}
ByteValues == {0} \cup FileBytes

\* Option<T>: None is the empty sequence, Some(v) the one-element sequence.
None == <<>>
Some(v) == <<v>>
IsSome(o) == o # <<>>
Unwrap(o) == o[1]

Min(a, b) == IF a <= b THEN a ELSE b
DivCeil(a, b) == (a + b - 1) \div b

\* All sequences over S of length lo..hi.
SeqsOf(S, lo, hi) == UNION {[1..n -> S] : n \in lo..hi}

\* s[from+1 .. to] in the 0-based half-open indexing of a Rust slice s[from..to].
Slice(s, from, to) == [i \in 1..(to - from) |-> s[from + i]]

\* 2^32 in the program.  TLC's integers are 32-bit signed, so the modulus of
\* a wrapped u32 is represented by 2^30, far above every length of the model.
U32Modulus == 2^30

(***************************************************************************)
(* Sha1::calculate.  SHA-1 is modelled as a collision-free digest: the     *)
(* bytes are folded into one number, in bijective base-|ByteValues|+1      *)
(* numeration, so that two different byte strings have different digests.  *)
(***************************************************************************)
RECURSIVE Sha1Calculate(_)
Sha1Calculate(value) ==
    IF value = <<>> THEN 0
    ELSE Sha1Calculate(SubSeq(value, 1, Len(value) - 1))
             * (Cardinality(ByteValues) + 1) + value[Len(value)] + 1

(***************************************************************************)
(* FileInfo                                                                *)
(***************************************************************************)
piece_count(fi) == DivCeil(fi.file_length, fi.piece_length)

\* A slip: the end of the last piece is not cut to the end of the file.
piece_bounds_uncut(fi, piece_index) ==
    <<piece_index * fi.piece_length, (piece_index + 1) * fi.piece_length>>

piece_bounds(fi, piece_index) ==
    LET piece_start == piece_index * fi.piece_length
        piece_end   == (piece_index + 1) * fi.piece_length
    IN  <<piece_start, IF piece_end > fi.file_length THEN fi.file_length ELSE piece_end>>

\* (piece_end - piece_start) as u32.  The subtraction is on usize: when
\* piece_start > piece_end (a piece index past the end of the file) a build
\* with overflow checks panics and a build without them wraps.
piece_length(fi, piece_index, overflow_checks) ==
    LET b == piece_bounds(fi, piece_index)
    IN  IF b[2] >= b[1] THEN [panic |-> FALSE, value |-> b[2] - b[1]]
        ELSE IF overflow_checks THEN [panic |-> TRUE, value |-> 0]
        ELSE [panic |-> FALSE, value |-> U32Modulus - (b[1] - b[2])]

(***************************************************************************)
(* RequestEmitter.  The emitter is the record                              *)
(*   [queue_length, block_length, piece_index, next_block_index].          *)
(***************************************************************************)
RequestEmitter_new(block_length) ==
    [queue_length |-> 10, block_length |-> block_length,
     piece_index |-> 0, next_block_index |-> 0]

\* A slip: the queue is one request shorter than asked for.
with_queue_length_less(emitter, queue_length) ==
    [emitter EXCEPT !.queue_length = queue_length - 1]

with_queue_length(emitter, queue_length) ==
    [emitter EXCEPT !.queue_length = queue_length]

\* A slip: the emitter stops one piece too late.
exhausted_late(emitter, fi) == emitter.piece_index > piece_count(fi)

\* self.piece_index >= self.file_info.piece_count()
exhausted(emitter, fi) == emitter.piece_index >= piece_count(fi)

\* A slip: the last block of a piece is requested at the full block length.
next_block_length_full(block_length, len, block_offset) == block_length

\* self.block_length.min(piece_length - block_offset)
next_block_length(block_length, len, block_offset) ==
    Min(block_length, len - block_offset)

\* One call of request_next_block.  send_ok is the outcome of channel.request
\* (an io error makes the call return before the emitter advances).  The
\* result holds the emitter afterwards, the requests written to the channel
\* (none or one) and whether the call returned Ok.
request_next_block(emitter, fi, send_ok) ==
    IF exhausted(emitter, fi)
    THEN [emitter |-> emitter, sent |-> <<>>, ok |-> TRUE]
    ELSE LET len          == piece_length(fi, emitter.piece_index, TRUE).value
             block_count  == DivCeil(len, emitter.block_length)
             block_offset == emitter.next_block_index * emitter.block_length
             block_length == next_block_length(emitter.block_length, len, block_offset)
             request      == [piece_index |-> emitter.piece_index,
                              offset |-> block_offset, length |-> block_length]
         IN  IF ~send_ok
             THEN [emitter |-> emitter, sent |-> <<>>, ok |-> FALSE]
             ELSE IF emitter.next_block_index + 1 >= block_count
             THEN [emitter |-> [emitter EXCEPT !.next_block_index = 0,
                                               !.piece_index = @ + 1],
                   sent |-> <<request>>, ok |-> TRUE]
             ELSE [emitter |-> [emitter EXCEPT !.next_block_index = @ + 1],
                   sent |-> <<request>>, ok |-> TRUE]

\* request_first_blocks: queue_length calls of request_next_block, stopping
\* at the first one that fails.  The channel fails on its fail_at-th request
\* (0: it never fails).  n counts the calls still to make.
RECURSIVE request_first_blocks_from(_, _, _, _)
request_first_blocks_from(emitter, fi, n, fail_at) ==
    IF n = 0 THEN [emitter |-> emitter, sent |-> <<>>, ok |-> TRUE]
    ELSE LET r == request_next_block(emitter, fi, fail_at # 1)
         IN  IF ~r.ok THEN r
             ELSE LET rest == request_first_blocks_from(
                                  r.emitter, fi, n - 1,
                                  IF fail_at = 0 \/ r.sent = <<>> THEN fail_at
                                  ELSE fail_at - 1)
                  IN  [emitter |-> rest.emitter, sent |-> r.sent \o rest.sent,
                       ok |-> rest.ok]

\* A slip: one request fewer than queue_length.
request_first_blocks_short(emitter, fi, fail_at) ==
    request_first_blocks_from(emitter, fi, emitter.queue_length - 1, fail_at)

request_first_blocks(emitter, fi, fail_at) ==
    request_first_blocks_from(emitter, fi, emitter.queue_length, fail_at)

(***************************************************************************)
(* PieceComposer.  The composer is the record [piece_index, buffer], with  *)
(* piece_index an Option.  A block is [piece_index, offset, data].         *)
(***************************************************************************)
PieceComposer_new == [piece_index |-> None, buffer |-> <<>>]

Piece_new(index, data) == [index |-> index, data |-> data]

\* The outcomes of append_block.
RetNone == [kind |-> "None", piece |-> None, expected |-> 0, actual |-> 0]
RetPiece(piece) == [kind |-> "Piece", piece |-> Some(piece), expected |-> 0, actual |-> 0]
RetPanic == [kind |-> "Panic", piece |-> None, expected |-> 0, actual |-> 0]
unexpected_piece_index(expected, actual) ==
    [kind |-> "UnexpectedPieceIndex", piece |-> None,
     expected |-> expected, actual |-> actual]
unexpected_block_offset(expected, actual) ==
    [kind |-> "UnexpectedBlockOffset", piece |-> None,
     expected |-> expected, actual |-> actual]

\* A slip: the piece index of the block is not checked.
verify_piece_index_any(composer, piece_index) == TRUE

verify_piece_index(composer, piece_index) ==
    Unwrap(composer.piece_index) = piece_index

verify_block_offset(composer, offset) ==
    Len(composer.buffer) = offset

current_piece_length(composer, fi, overflow_checks) ==
    piece_length(fi, Unwrap(composer.piece_index), overflow_checks)

\* A slip: the piece is complete only once the buffer exceeds its length.
piece_is_complete_strict(buffer_len, len) == buffer_len > len

\* self.buffer.len() >= self.current_piece_length()
piece_is_complete(buffer_len, len) == buffer_len >= len

\* A slip: the buffer is not cleared when the piece is taken.
take_piece_keep_buffer(composer) ==
    [composer |-> [composer EXCEPT !.piece_index = None],
     ret |-> RetPiece(Piece_new(Unwrap(composer.piece_index), composer.buffer))]

\* The completed piece is taken out of the composer (lines 41-44).
take_piece(composer) ==
    [composer |-> [piece_index |-> None, buffer |-> <<>>],
     ret |-> RetPiece(Piece_new(Unwrap(composer.piece_index), composer.buffer))]

\* append_block: the composer afterwards and what the call returned.
append_block(composer, fi, block, overflow_checks) ==
    LET c1 == IF composer.piece_index = None
              THEN [composer EXCEPT !.piece_index = Some(block.piece_index)]
              ELSE composer
    IN  IF ~verify_piece_index(c1, block.piece_index)
        THEN [composer |-> c1,
              ret |-> unexpected_piece_index(Unwrap(c1.piece_index), block.piece_index)]
        ELSE IF ~verify_block_offset(c1, block.offset)
        THEN [composer |-> c1,
              ret |-> unexpected_block_offset(Len(c1.buffer), block.offset)]
        ELSE LET c2  == [c1 EXCEPT !.buffer = @ \o block.data]
                 len == current_piece_length(c2, fi, overflow_checks)
             IN  IF len.panic THEN [composer |-> c2, ret |-> RetPanic]
                 ELSE IF piece_is_complete(Len(c2.buffer), len.value)
                 THEN take_piece(c2)
                 ELSE [composer |-> c2, ret |-> RetNone]

(***************************************************************************)
(* State.                                                                  *)
(***************************************************************************)
VARIABLES
    \* FileDownloader and the locals of download()
    file_info,                \* [file_length, piece_length]
    piece_hashes,             \* Vec<Sha1>, one digest per piece
    request_emitter,
    piece_composer,
    buffer,                   \* the output buffer of download()
    downloaded_pieces_count,
    piece,                    \* what the latest append_block returned (Option<Piece>)
    progress,                 \* the progress reports made so far
    pc,                       \* "new", "loop", "returned"
    result,                   \* what download() returned
    \* the channel and the peer behind it
    file_data,                \* the file the torrent describes
    pending,                  \* requests written to the channel and not answered yet
    sent,                     \* every request written to the channel
    peer_honest,              \* so far the peer answered every request, in order, exactly
    blocks_received           \* the blocks channel.receive() has returned to download()

dlVars == <<file_info, piece_hashes, request_emitter, piece_composer, buffer,
            downloaded_pieces_count, piece, progress, pc, result,
            file_data, pending, sent, peer_honest, blocks_received>>

VARIABLES
    \* request_complete_file and its channel
    rcf_piece_count,          \* the piece_count argument
    rcf_pc,                   \* "receive_bitfield", "send_interested", "receive_unchoke", "returned"
    rcf_result,               \* what request_complete_file returned
    message_sequence          \* the channel's traffic: <<"recv" or "send", message>>

rcfVars == <<rcf_piece_count, rcf_pc, rcf_result, message_sequence>>

VARIABLES
    \* a PieceComposer used on its own
    cmp_file_info,            \* the FileInfo the composer was made with
    cmp_composer,
    cmp_ret,                  \* what the latest append_block returned
    cmp_run,                  \* the blocks appended since the composer was last empty
    cmp_last                  \* the latest call: its block, the composer before it

cmpVars == <<cmp_file_info, cmp_composer, cmp_ret, cmp_run, cmp_last>>

VARIABLES
    \* a RequestEmitter used on its own
    em_file_info,             \* the FileInfo the emitter was made with
    em_emitter,
    em_sent,                  \* the requests written to the channel, in order
    em_last                   \* the latest call: the emitter and the requests before it,
                              \* whether it returned Ok

emVars == <<em_file_info, em_emitter, em_sent, em_last>>

VARIABLES
    \* PeerMessage::receive and PeerMessage::send on a byte stream
    pm_src,                   \* the bytes not read yet
    pm_frames,                \* the frames those bytes were written as
    pm_dst,                   \* the bytes the latest send wrote
    pm_last                   \* the latest call: receive or send, what it returned,
                              \* the keep-alives and the frame it went through

pmVars == <<pm_src, pm_frames, pm_dst, pm_last>>

VARIABLES
    \* HandshakeMessage::send and HandshakeMessage::receive on a byte stream
    hs_src,                   \* the bytes not read yet
    hs_unread,                \* the handshakes those bytes were written as
    hs_dst,                   \* the bytes the latest send wrote
    hs_last                   \* the latest call: receive or send, its message, what it
                              \* returned, the number of bytes it read

hsVars == <<hs_src, hs_unread, hs_dst, hs_last>>

VARIABLES
    \* SeqPeerConnector::connect and the consumer of its iterator
    sc_addrs,                 \* the addresses given to connect
    sc_index,                 \* the addresses taken from the input so far
    sc_pc,                    \* "idle", "next" (inside Iterator::next), "done"
    sc_connecting,            \* the address try_connect is busy with (Option)
    sc_attempts,              \* the attempts started, in order: [addr, index]
    sc_outcomes,              \* whether each finished attempt connected
    sc_progress,              \* the calls of the progress callback
    sc_yielded                \* the streams yielded, in order

scVars == <<sc_addrs, sc_index, sc_pc, sc_connecting, sc_attempts, sc_outcomes,
            sc_progress, sc_yielded>>

VARIABLES
    \* ParPeerConnector::connect (PeerPoller) and the sockets it probes
    pp_addrs,                 \* the addresses given to connect; Token(i) is entry i + 1
    poller,                   \* PeerPoller: [probes, poll, peers_probed]
    pp_sockets,               \* per token: [state, ready, blocking] of its socket
    pp_pc,                    \* "idle", "loop" (top of the loop), "poll"
    pp_ret,                   \* what the last call of next() returned
    pp_yielded,               \* the tokens of the streams yielded, in order
    pp_progress,              \* the calls of the progress callback
    pp_seen                   \* what the readiness events showed, and the probes dropped

ppVars == <<pp_addrs, poller, pp_sockets, pp_pc, pp_ret, pp_yielded, pp_progress,
            pp_seen>>

VARIABLES
    \* bencoding::Decoder on one input
    bd_raw_data,              \* the bytes given to Decoder::new
    bd_origin,                \* how the input was made: a value cut short, a string, any bytes
    bd_called,                \* "", "new", "decode" or "decode_dict": the last call
    bd_result                 \* what the call returned, and the decoder's position

bdVars == <<bd_raw_data, bd_origin, bd_called, bd_result>>

VARIABLES
    \* Info::deserialize on the info dict of one metainfo
    ti_internal,              \* InfoInternal, as the deserializer delivers it
    ti_pc,                    \* "", "given" (a metainfo is there), "returned"
    ti_result                 \* what deserialize returned

tiVars == <<ti_internal, ti_pc, ti_result>>

VARIABLES
    \* tracker::get_peer_list_from_response on one response body
    tr_origin,                \* what the tracker put into the body
    tr_response,              \* tracker_response, the bytes of the body
    tr_pc,                    \* "", "received", "returned"
    tr_result                 \* what get_peer_list_from_response returned

trVars == <<tr_origin, tr_response, tr_pc, tr_result>>

VARIABLES
    \* PeerChannel::handshake on one stream
    ch_args,                  \* info_hash and peer_id, the arguments
    ch_stream,                \* the TcpStream: read_timeout, the bytes written,
                              \* the bytes the peer wrote that are not read yet
    ch_peer,                  \* what the peer wrote: its handshake and the bytes
    ch_calls,                 \* the calls made on the stream, in order
    ch_pc,                    \* the line of handshake reached, or "returned"
    ch_result                 \* what handshake returned

pcVars == <<ch_args, ch_stream, ch_peer, ch_calls, ch_pc, ch_result>>

VARIABLES
    \* probe_peers_sequential on one list of addresses
    pr_addrs,                 \* peer_addrs
    pr_index,                 \* the index the for loop is at
    pr_probes,                \* the calls of probe made, in order
    pr_pc,                    \* "", "loop", "returned"
    pr_result                 \* what probe_peers_sequential returned

prVars == <<pr_addrs, pr_index, pr_probes, pr_pc, pr_result>>

VARIABLES
    \* App::run_ui_loop and the background tasks
    ui_threads,               \* per task: "", "running", "returned", "failed"
    ui_sent,                  \* per task: the events its thread sent, in order
    ui_channel,               \* the events sent and not yet received
    ui_handled,               \* the events process_app_event handled, in order
    app_state,                \* App::app_state
    ui_displayed,             \* the state the last draw rendered
    ui_pc,                    \* "", "start", "draw", "recv", "returned"
    ui_result                 \* what run_ui_loop returned

uiVars == <<ui_threads, ui_sent, ui_channel, ui_handled, app_state, ui_displayed,
            ui_pc, ui_result>>

vars == <<dlVars, rcfVars, cmpVars, emVars, pmVars, hsVars, scVars, ppVars,
         bdVars, tiVars, trVars, pcVars, prVars, uiVars>>

(***************************************************************************)
(* FileDownloader                                                          *)
(***************************************************************************)
Result(kind, buf, expected, actual) ==
    [kind |-> kind, buffer |-> buf, expected |-> expected, actual |-> actual]
NotReturned == Result("Running", <<>>, 0, 0)
Ok(buf) == Result("Ok", buf, 0, 0)
IoError == Result("Io", <<>>, 0, 0)
PieceHashMismatch == Result("PieceHashMismatch", <<>>, 0, 0)
Panicked == Result("Panic", <<>>, 0, 0)

\* A slip: the digest is not compared.
verify_piece_hash_skipped(hashes, piece_index, data) == TRUE

\* Sha1::verify, as verify_piece_hash uses it: the digest of the data is the
\* expected one.
verify_piece_hash(hashes, piece_index, data) ==
    hashes[piece_index + 1] = Sha1Calculate(data)

\* buffer[piece_start..piece_end].copy_from_slice(&data)
copy_from_slice(buf, bounds, data) ==
    [i \in 1..Len(buf) |->
        IF bounds[1] < i /\ i <= bounds[2] THEN data[i - bounds[1]] ELSE buf[i]]

\* The progress report made when a piece is finished: which piece it was
\* (download_report.download_finished(piece.index)) and the arguments of the
\* progress callback, (downloaded_bytes, file_length).
report_progress(reports, fi, p) ==
    LET before == IF reports = <<>> THEN 0 ELSE reports[Len(reports)].downloaded
    IN  Append(reports, [piece |-> p.index,
                         downloaded |-> before + Len(p.data),
                         total |-> fi.file_length])

\* The blocks a peer may send during a download: any piece index up to one
\* past the last piece, any offset inside a piece, any data of one byte up to
\* a block's length.  (Empty blocks are fed to the composer in SpecComposer.)
Blocks(fi, block_length) ==
    [piece_index : 0..piece_count(fi),
     offset : 0..(fi.piece_length - 1),
     data : SeqsOf(FileBytes, 1, block_length)]

\* What channel.receive() returns: a block, or an io error (None).
Received(fi, block_length) == {None} \cup {Some(b) : b \in Blocks(fi, block_length)}

\* What a well-behaved peer sends next: the bytes of the oldest request not
\* answered yet; with no such request nothing arrives and the read fails.
honest_answer(requests, data, fi) ==
    IF requests = <<>> THEN None
    ELSE LET r     == Head(requests)
             start == r.piece_index * fi.piece_length + r.offset
         IN  Some([piece_index |-> r.piece_index, offset |-> r.offset,
                   data |-> Slice(data, start, start + r.length)])

\* The state download() leaves when it returns res from inside the loop.
Returned(em, req, comp, buf, count, pce, reports, res) ==
    [request_emitter |-> em, sent |-> req, piece_composer |-> comp, buffer |-> buf,
     downloaded_pieces_count |-> count, piece |-> pce, progress |-> reports,
     result |-> res]

\* What download() does with a piece the composer returned (lines 128-134).
finish_piece(em, req, comp, buf, count, reports, fi, hashes, p) ==
    LET bounds == piece_bounds(fi, p.index)
    IN  IF p.index >= Len(hashes)
        THEN Returned(em, req, comp, buf, count, Some(p), reports, Panicked)
        ELSE IF ~verify_piece_hash(hashes, p.index, p.data)
        THEN Returned(em, req, comp, buf, count, Some(p), reports, PieceHashMismatch)
        ELSE IF Len(p.data) # bounds[2] - bounds[1]
        THEN Returned(em, req, comp, buf, count, Some(p), reports, Panicked)
        ELSE LET buf2 == copy_from_slice(buf, bounds, p.data)
             IN  Returned(em, req, comp, buf2, count + 1, Some(p),
                          report_progress(reports, fi, p),
                          IF count + 1 < piece_count(fi) THEN NotReturned ELSE Ok(buf2))

\* One turn of the loop of download() (lines 122-136): receive a block,
\* request the next one, hand the block to the composer, finish the piece
\* the composer returns.
download_turn(em, comp, buf, count, reports, fi, hashes, recv, send_ok, overflow_checks) ==
    IF recv = None
    THEN Returned(em, <<>>, comp, buf, count, None, reports, IoError)
    ELSE LET r == request_next_block(em, fi, send_ok)
         IN  IF ~r.ok
             THEN Returned(r.emitter, r.sent, comp, buf, count, None, reports, IoError)
             ELSE LET a == append_block(comp, fi, Unwrap(recv), overflow_checks)
                  IN  CASE a.ret.kind = "None" ->
                             Returned(r.emitter, r.sent, a.composer, buf, count, None,
                                      reports, NotReturned)
                        [] a.ret.kind = "Piece" ->
                             finish_piece(r.emitter, r.sent, a.composer, buf, count,
                                          reports, fi, hashes, Unwrap(a.ret.piece))
                        [] a.ret.kind = "Panic" ->
                             Returned(r.emitter, r.sent, a.composer, buf, count, None,
                                      reports, Panicked)
                        [] OTHER ->
                             Returned(r.emitter, r.sent, a.composer, buf, count, None,
                                      reports,
                                      Result(a.ret.kind, <<>>, a.ret.expected, a.ret.actual))

\* The outcomes of channel.request(): Ok, or an io error.  When the emitter
\* is exhausted no request is written and nothing can fail.
SendOutcomes(em, fi) ==
    IF em.piece_index >= piece_count(fi) THEN {TRUE} ELSE BOOLEAN

\* The builds that differ on a received block: with or without overflow
\* checks when the block's piece starts past the end of the file.
Builds(fi, recv) ==
    IF recv # None /\ Unwrap(recv).piece_index * fi.piece_length > fi.file_length
    THEN BOOLEAN ELSE {TRUE}

\* download(), up to the loop: allocate the buffer, send the first requests.
download_start ==
    /\ pc = "new"
    /\ \E fail_at \in 0..request_emitter.queue_length :
         LET r == request_first_blocks(request_emitter, file_info, fail_at)
         IN  /\ request_emitter' = r.emitter
             /\ sent' = sent \o r.sent
             /\ pending' = pending \o r.sent
             /\ peer_honest' = r.ok
             /\ pc' = IF r.ok THEN "loop" ELSE "returned"
             /\ result' = IF r.ok THEN NotReturned ELSE IoError
    /\ buffer' = [i \in 1..file_info.file_length |-> 0]
    /\ downloaded_pieces_count' = 0
    /\ UNCHANGED <<file_info, piece_hashes, piece_composer, piece, progress, file_data,
                   blocks_received>>
    /\ UNCHANGED <<rcfVars, cmpVars, emVars, pmVars, hsVars, scVars, ppVars,
                 bdVars, tiVars, trVars, pcVars, prVars, uiVars>>

\* download(), one turn of the loop, and the return that ends it.
download_loop ==
    /\ pc = "loop"
    /\ downloaded_pieces_count < piece_count(file_info)
    /\ \E recv \in Received(file_info, request_emitter.block_length),
          send_ok \in SendOutcomes(request_emitter, file_info) :
       \E overflow_checks \in Builds(file_info, recv) :
       \E t \in {download_turn(request_emitter, piece_composer, buffer,
                               downloaded_pieces_count, progress, file_info,
                               piece_hashes, recv, send_ok, overflow_checks)} :
             /\ request_emitter' = t.request_emitter
             /\ sent' = sent \o t.sent
             /\ pending' = (IF recv = None \/ pending = <<>> THEN pending
                            ELSE Tail(pending)) \o t.sent
             /\ piece_composer' = t.piece_composer
             /\ buffer' = t.buffer
             /\ downloaded_pieces_count' = t.downloaded_pieces_count
             /\ piece' = t.piece
             /\ progress' = t.progress
             /\ result' = t.result
             /\ pc' = IF t.result = NotReturned THEN "loop" ELSE "returned"
             /\ peer_honest' = (/\ peer_honest
                                /\ recv = honest_answer(pending, file_data, file_info)
                                /\ send_ok)
             /\ blocks_received' = IF recv = None THEN blocks_received
                                   ELSE blocks_received + 1
    /\ UNCHANGED <<file_info, piece_hashes, file_data>>
    /\ UNCHANGED <<rcfVars, cmpVars, emVars, pmVars, hsVars, scVars, ppVars,
                 bdVars, tiVars, trVars, pcVars, prVars, uiVars>>

\* The digests of the pieces of a file.
hashes_of(data, fi) ==
    [i \in 1..piece_count(fi) |->
        Sha1Calculate(Slice(data, piece_bounds(fi, i - 1)[1], piece_bounds(fi, i - 1)[2]))]

\* The files downloaded: all bytes equal (every full piece has the same
\* digest), bytes alternating, and a first byte unlike the others.
FileContents(fl) ==
    {[i \in 1..fl |-> 1], [i \in 1..fl |-> 1 + (i % 2)],
     [i \in 1..fl |-> IF i = 1 THEN 2 ELSE 1]}



(***************************************************************************)
(* PeerMessage, as far as request_complete_file looks at it.  A message is *)
(* the record [kind, id, bytes, piece_index, offset, length]; bytes is the *)
(* bitfield, the block or the payload.                                     *)
(***************************************************************************)
PeerMessage(kind, id, bytes, piece_index, offset, length) ==
    [kind |-> kind, id |-> id, bytes |-> bytes,
     piece_index |-> piece_index, offset |-> offset, length |-> length]
Bitfield(bytes) == PeerMessage("Bitfield", 0, bytes, 0, 0, 0)
Interested == PeerMessage("Interested", 0, <<>>, 0, 0, 0)
Unchoke == PeerMessage("Unchoke", 0, <<>>, 0, 0, 0)
Request(piece_index, offset, length) ==
    PeerMessage("Request", 0, <<>>, piece_index, offset, length)
PieceMessage(piece_index, offset, block) ==
    PeerMessage("Piece", 0, block, piece_index, offset, 0)
Unknown(id, payload) == PeerMessage("Unknown", id, payload, 0, 0, 0)

(***************************************************************************)
(* request_complete_file                                                   *)
(***************************************************************************)
RcfResult(kind, expected_message, message, expected, received) ==
    [kind |-> kind, expected_message |-> expected_message, message |-> message,
     expected |-> expected, received |-> received]
RcfRunning == RcfResult("Running", "", None, 0, 0)
RcfOk == RcfResult("Ok", "", None, 0, 0)
unexpected_message_error(expected, received) ==
    RcfResult("UnexpectedMessage", expected, Some(received), 0, 0)
BitfieldSizeMismatch(expected, received) ==
    RcfResult("BitfieldSizeMismatch", "", None, expected, received)
IncompleteFile == RcfResult("IncompleteFile", "", None, 0, 0)
Other == RcfResult("Other", "", None, 0, 0)
RcfPanic == RcfResult("Panic", "", None, 0, 0)

\* A slip: the expected size rounds down.
check_bitfield_size_floor(bitfield_size, n_pieces) ==
    IF bitfield_size # n_pieces \div 8
    THEN BitfieldSizeMismatch(n_pieces \div 8, bitfield_size)
    ELSE RcfOk

check_bitfield_size(bitfield_size, n_pieces) ==
    LET expected_bitfield_size == DivCeil(n_pieces, 8)
    IN  IF bitfield_size # expected_bitfield_size
        THEN BitfieldSizeMismatch(expected_bitfield_size, bitfield_size)
        ELSE RcfOk

\* a & b on u8
RECURSIVE BitAnd(_, _)
BitAnd(a, b) ==
    IF a = 0 \/ b = 0 THEN 0
    ELSE 2 * BitAnd(a \div 2, b \div 2) + (a % 2) * (b % 2)

\* A slip: the shift is made on the unsigned byte, which leaves one bit set.
last_byte_mask_unsigned(n_pieces) ==
    LET pieces_in_last_byte == IF n_pieces % 8 = 0 THEN 8 ELSE n_pieces % 8
    IN  128 \div 2 ^ (pieces_in_last_byte - 1)

\* (128u8 as i8 >> (pieces_in_last_byte - 1)) as u8: 128 as i8 is -128, >> on
\* i8 is the arithmetic shift (division by a power of two, rounded down), and
\* the cast back to u8 is modulo 256.
last_byte_mask(n_pieces) ==
    LET pieces_in_last_byte == IF n_pieces % 8 = 0 THEN 8 ELSE n_pieces % 8
        as_i8   == 128 - 256
        shifted == -((-as_i8 + 2 ^ (pieces_in_last_byte - 1) - 1)
                        \div 2 ^ (pieces_in_last_byte - 1))
    IN  (shifted + 256) % 256

\* A slip: one piece bit of the last byte is enough.
last_byte_complete_any(last_byte, mask) == BitAnd(last_byte, mask) # 0

\* last_byte & last_byte_mask != last_byte_mask is the failure
last_byte_complete(last_byte, mask) == BitAnd(last_byte, mask) = mask

\* A slip: the bitfield's content is not looked at.
check_bitfield_completeness_skipped(bitfield, n_pieces) == RcfOk

\* bitfield[..bitfield.len() - 1] of an empty bitfield panics (the index
\* underflows, or is out of range once wrapped).
check_bitfield_completeness(bitfield, n_pieces) ==
    IF Len(bitfield) = 0 THEN RcfPanic
    ELSE IF \E i \in 1..(Len(bitfield) - 1) : bitfield[i] # 255 THEN IncompleteFile
    ELSE IF ~last_byte_complete(bitfield[Len(bitfield)], last_byte_mask(n_pieces))
    THEN IncompleteFile
    ELSE RcfOk

\* The first match of request_complete_file (lines 22-26).
expect_bitfield(message, n_pieces) ==
    IF message.kind = "Bitfield"
    THEN LET size == check_bitfield_size(Len(message.bytes), n_pieces)
         IN  IF size # RcfOk THEN size
             ELSE check_bitfield_completeness(message.bytes, n_pieces)
    ELSE unexpected_message_error("bitfield", message)

\* A slip: the message is told by its id, and an Unknown with id 1 passes.
expect_unchoke_by_id(message) ==
    IF message.kind = "Unchoke" \/ (message.kind = "Unknown" /\ message.id = 1)
    THEN RcfOk
    ELSE unexpected_message_error("unchoke", message)

\* The second match of request_complete_file (lines 30-33).
expect_unchoke(message) ==
    IF message.kind = "Unchoke" THEN RcfOk
    ELSE unexpected_message_error("unchoke", message)

\* The bytes of a bitfield other than its last one, and the bitfields a peer
\* sends: any length up to MaxBitfieldLength, any last byte.
InnerBytes == {0, 127, 128, 254, 255}
Bitfields ==
    {<<>>} \cup
    UNION {{inner \o <<last>> : inner \in [1..n -> InnerBytes], last \in 0..255} :
           n \in 0..(MaxBitfieldLength - 1)}

\* The messages of the other kinds.
OtherMessages ==
    {Interested, Unchoke, Request(0, 0, 1), PieceMessage(0, 0, <<1>>)}
    \cup {Unknown(id, payload) : id \in {0, 1, 4}, payload \in {<<>>, <<255>>}}

\* What channel.receive() returns first: a message, or an io error (None).
FirstReceived ==
    {None} \cup {Some(Bitfield(b)) : b \in Bitfields} \cup {Some(m) : m \in OtherMessages}

\* What channel.receive() returns next; the content of a bitfield no longer
\* matters.
SecondReceived ==
    {None, Some(Bitfield(<<>>)), Some(Bitfield(<<255>>))} \cup {Some(m) : m \in OtherMessages}

\* channel.receive()? and the first match.
receive_bitfield ==
    /\ rcf_pc = "receive_bitfield"
    /\ \E recv \in FirstReceived :
         IF recv = None
         THEN /\ rcf_result' = Other
              /\ rcf_pc' = "returned"
              /\ UNCHANGED message_sequence
         ELSE \E r \in {expect_bitfield(Unwrap(recv), rcf_piece_count)} :
              /\ message_sequence' = Append(message_sequence, <<"recv", Unwrap(recv)>>)
              /\ rcf_result' = IF r = RcfOk THEN RcfRunning ELSE r
              /\ rcf_pc' = IF r = RcfOk THEN "send_interested" ELSE "returned"
    /\ UNCHANGED rcf_piece_count
    /\ UNCHANGED <<dlVars, cmpVars, emVars, pmVars, hsVars, scVars, ppVars,
                 bdVars, tiVars, trVars, pcVars, prVars, uiVars>>

\* channel.send(&PeerMessage::Interested)?
send_interested ==
    /\ rcf_pc = "send_interested"
    /\ \E send_ok \in BOOLEAN :
         IF send_ok
         THEN /\ message_sequence' = Append(message_sequence, <<"send", Interested>>)
              /\ rcf_pc' = "receive_unchoke"
              /\ UNCHANGED rcf_result
         ELSE /\ rcf_result' = Other
              /\ rcf_pc' = "returned"
              /\ UNCHANGED message_sequence
    /\ UNCHANGED rcf_piece_count
    /\ UNCHANGED <<dlVars, cmpVars, emVars, pmVars, hsVars, scVars, ppVars,
                 bdVars, tiVars, trVars, pcVars, prVars, uiVars>>

\* channel.receive()?, the second match and the return.
receive_unchoke ==
    /\ rcf_pc = "receive_unchoke"
    /\ \E recv \in SecondReceived :
         IF recv = None
         THEN /\ rcf_result' = Other
              /\ UNCHANGED message_sequence
         ELSE /\ message_sequence' = Append(message_sequence, <<"recv", Unwrap(recv)>>)
              /\ rcf_result' = expect_unchoke(Unwrap(recv))
    /\ rcf_pc' = "returned"
    /\ UNCHANGED rcf_piece_count
    /\ UNCHANGED <<dlVars, cmpVars, emVars, pmVars, hsVars, scVars, ppVars,
                 bdVars, tiVars, trVars, pcVars, prVars, uiVars>>

(***************************************************************************)
(* A PieceComposer fed any blocks, for as long as append_block returns Ok  *)
(* (download() stops at the first error).                                  *)
(***************************************************************************)
\* The length of a piece of the file: piece_length, but for the last piece,
\* which is what is left of the file.
PieceSize(fi, piece_index) ==
    Min(fi.piece_length, fi.file_length - piece_index * fi.piece_length)

\* The blocks handed to the composer, empty ones and ones of a piece or an
\* offset the file does not have among them.
ComposerBlocks(fi) ==
    [piece_index : 0..piece_count(fi), offset : 0..fi.piece_length,
     data : SeqsOf(FileBytes, 0, MaxBlockLength)]

\* No block appended since the composer was last empty.
EmptyRun ==
    [piece_index |-> None, data |-> <<>>, blocks |-> 0, partition |-> TRUE,
     after_piece |-> FALSE]
\* The blocks appended are not the beginning of a partition of a piece.
BrokenRun ==
    [piece_index |-> None, data |-> <<>>, blocks |-> 0, partition |-> FALSE,
     after_piece |-> FALSE]

\* The run with one more block.  partition: the blocks are of one piece of
\* the file, not empty, in ascending offset, without gap or overlap, and do
\* not go past the end of the piece.
extend_run(run, fi, block, after_piece) ==
    LET base == IF after_piece THEN [EmptyRun EXCEPT !.after_piece = TRUE] ELSE run
        index == IF base.blocks = 0 THEN block.piece_index ELSE Unwrap(base.piece_index)
    IN  IF /\ base.partition
           /\ block.piece_index = index
           /\ index < piece_count(fi)
           /\ block.offset = Len(base.data)
           /\ Len(block.data) >= 1
           /\ Len(base.data) + Len(block.data) <= PieceSize(fi, index)
        THEN [base EXCEPT !.piece_index = Some(index), !.data = @ \o block.data,
                          !.blocks = @ + 1]
        ELSE BrokenRun

\* append_block has not been called.
NoCall == [block |-> None, before |-> PieceComposer_new, duplicate |-> FALSE]

\* One call of append_block.
composer_append_block ==
    /\ cmp_ret.kind \in {"NotCalled", "None", "Piece"}
    /\ \E block \in ComposerBlocks(cmp_file_info) :
       \E overflow_checks \in Builds(cmp_file_info, Some(block)) :
       \E a \in {append_block(cmp_composer, cmp_file_info, block, overflow_checks)} :
         /\ cmp_composer' = a.composer
         /\ cmp_ret' = a.ret
         /\ cmp_run' = extend_run(cmp_run, cmp_file_info, block, cmp_ret.kind = "Piece")
         /\ cmp_last' = [block |-> Some(block), before |-> cmp_composer,
                         duplicate |-> (/\ cmp_last.block = Some(block)
                                        /\ Len(block.data) >= 1)]
    /\ UNCHANGED cmp_file_info
    /\ UNCHANGED <<dlVars, rcfVars, emVars, pmVars, hsVars, scVars, ppVars,
                 bdVars, tiVars, trVars, pcVars, prVars, uiVars>>

(***************************************************************************)
(* A RequestEmitter called any number of times, on a channel that may      *)
(* fail.                                                                   *)
(***************************************************************************)
\* request_next_block has not been called.
NoRequestCall ==
    [called |-> FALSE, before |-> RequestEmitter_new(1), sent_before |-> <<>>,
     ok |-> TRUE]

\* One call of request_next_block.
emitter_request_next_block ==
    /\ \E send_ok \in SendOutcomes(em_emitter, em_file_info) :
       \E r \in {request_next_block(em_emitter, em_file_info, send_ok)} :
         /\ em_emitter' = r.emitter
         /\ em_sent' = em_sent \o r.sent
         /\ em_last' = [called |-> TRUE, before |-> em_emitter,
                        sent_before |-> em_sent, ok |-> r.ok]
    /\ UNCHANGED em_file_info
    /\ UNCHANGED <<dlVars, rcfVars, cmpVars, pmVars, hsVars, scVars, ppVars,
                 bdVars, tiVars, trVars, pcVars, prVars, uiVars>>

(***************************************************************************)
(* PeerMessage::receive and PeerMessage::send.  A stream is the sequence   *)
(* of its bytes; a call returns [kind, message] and what is left of the    *)
(* stream.                                                                 *)
(***************************************************************************)
\* u32::to_be_bytes
to_be_bytes(v) ==
    <<v \div 16777216, (v \div 65536) % 256, (v \div 256) % 256, v % 256>>

\* u32::from_be_bytes
from_be_bytes(b) == ((b[1] * 256 + b[2]) * 256 + b[3]) * 256 + b[4]

\* Read::read_exact for n bytes: the bytes and the rest of the stream, or
\* the error of a stream that ends before.
read_exact(src, n) ==
    IF Len(src) >= n
    THEN [ok |-> TRUE, bytes |-> SubSeq(src, 1, n), rest |-> SubSeq(src, n + 1, Len(src))]
    ELSE [ok |-> FALSE, bytes |-> <<>>, rest |-> <<>>]

\* The outcomes of receive and send.
PmOk(message) == [kind |-> "Ok", message |-> Some(message)]
PmSent == [kind |-> "Ok", message |-> None]
PmIoError == [kind |-> "Io", message |-> None]
PmInvalidData == [kind |-> "InvalidData", message |-> None]
PmPanic == [kind |-> "Panic", message |-> None]

\* A slip: a zero length is taken for the length of a message.
is_keep_alive_never(msg_len) == FALSE

\* while msg_len == 0
is_keep_alive(msg_len) == msg_len = 0

\* read_message_length: the length, the rest of the stream and the number
\* of zero lengths read before it.
RECURSIVE read_message_length(_)
read_message_length(src) ==
    LET r == read_exact(src, 4)
    IN  IF ~r.ok THEN [ok |-> FALSE, msg_len |-> 0, rest |-> <<>>, keep_alives |-> 0]
        ELSE IF is_keep_alive(from_be_bytes(r.bytes))
        THEN LET next == read_message_length(r.rest)
             IN  [next EXCEPT !.keep_alives = @ + 1]
        ELSE [ok |-> TRUE, msg_len |-> from_be_bytes(r.bytes), rest |-> r.rest,
              keep_alives |-> 0]

\* read_message_payload.  vec![0_u8; msg_len - 1] panics for msg_len = 0
\* (which read_message_length never returns).
read_message_payload(src, msg_len) ==
    IF msg_len = 0
    THEN [ok |-> FALSE, panic |-> TRUE, id |-> 0, payload |-> <<>>, rest |-> <<>>]
    ELSE LET id_buffer == read_exact(src, 1)
             payload_buffer == read_exact(id_buffer.rest, msg_len - 1)
         IN  IF ~id_buffer.ok \/ ~payload_buffer.ok
             THEN [ok |-> FALSE, panic |-> FALSE, id |-> 0, payload |-> <<>>,
                   rest |-> <<>>]
             ELSE [ok |-> TRUE, panic |-> FALSE, id |-> id_buffer.bytes[1],
                   payload |-> payload_buffer.bytes, rest |-> payload_buffer.rest]

\* A slip: an id the client does not know is an error.
decode_message_known_only(id, payload) ==
    CASE id = 1 -> PmOk(Unchoke)
      [] id = 5 -> PmOk(Bitfield(payload))
      [] id = 7 ->
           IF Len(payload) < 8 THEN PmPanic
           ELSE PmOk(PieceMessage(from_be_bytes(SubSeq(payload, 1, 4)),
                                  from_be_bytes(SubSeq(payload, 5, 8)),
                                  SubSeq(payload, 9, Len(payload))))
      [] OTHER -> PmInvalidData

\* The match on the id in receive (lines 28-42).  payload[0..4] and
\* payload[4..8] panic on a payload shorter than 8 bytes.
decode_message(id, payload) ==
    CASE id = 1 -> PmOk(Unchoke)
      [] id = 5 -> PmOk(Bitfield(payload))
      [] id = 7 ->
           IF Len(payload) < 8 THEN PmPanic
           ELSE PmOk(PieceMessage(from_be_bytes(SubSeq(payload, 1, 4)),
                                  from_be_bytes(SubSeq(payload, 5, 8)),
                                  SubSeq(payload, 9, Len(payload))))
      [] OTHER -> PmOk(Unknown(id, payload))

\* PeerMessage::receive: what it returns, the rest of the stream (of no use
\* after an error) and the number of keep-alives it read.
receive(src) ==
    LET msg_len == read_message_length(src)
    IN  IF ~msg_len.ok
        THEN [result |-> PmIoError, rest |-> <<>>, keep_alives |-> msg_len.keep_alives]
        ELSE LET p == read_message_payload(msg_len.rest, msg_len.msg_len)
             IN  IF p.panic
                 THEN [result |-> PmPanic, rest |-> <<>>,
                       keep_alives |-> msg_len.keep_alives]
                 ELSE IF ~p.ok
                 THEN [result |-> PmIoError, rest |-> <<>>,
                       keep_alives |-> msg_len.keep_alives]
                 ELSE [result |-> decode_message(p.id, p.payload), rest |-> p.rest,
                       keep_alives |-> msg_len.keep_alives]

\* PeerMessage::send: what it returns and the bytes it writes.
send(message) ==
    CASE message.kind = "Interested" ->
           [result |-> PmSent, bytes |-> <<0, 0, 0, 1, 2>>]
      [] message.kind = "Request" ->
           [result |-> PmSent,
            bytes |-> <<0, 0, 0, 13, 6>> \o to_be_bytes(message.piece_index)
                         \o to_be_bytes(message.offset) \o to_be_bytes(message.length)]
      [] OTHER -> [result |-> PmInvalidData, bytes |-> <<>>]

\* A frame on the stream: a keep-alive, or an id and a payload; echo is the
\* message whose bytes, written by send, come back as this frame.
KeepAlive == [keep_alive |-> TRUE, id |-> 0, payload |-> <<>>, echo |-> None]
Frame(id, payload) ==
    [keep_alive |-> FALSE, id |-> id, payload |-> payload, echo |-> None]
Echo(message, bytes) ==
    [keep_alive |-> FALSE, id |-> bytes[5], payload |-> SubSeq(bytes, 6, Len(bytes)),
     echo |-> Some(message)]

\* The bytes of a frame: the length of id and payload as four bytes, most
\* significant first, the id, the payload; four zero bytes for a keep-alive.
FrameBytes(frame) ==
    IF frame.keep_alive THEN <<0, 0, 0, 0>>
    ELSE to_be_bytes(Len(frame.payload) + 1) \o <<frame.id>> \o frame.payload

RECURSIVE StreamBytes(_)
StreamBytes(frames) ==
    IF frames = <<>> THEN <<>>
    ELSE FrameBytes(Head(frames)) \o StreamBytes(Tail(frames))

\* The frames a peer writes: ids the client does not decode, Unchoke,
\* Bitfield, a Piece, and a Piece frame without a payload.
PeerFrames ==
    {Frame(id, payload) : id \in {0, 9}, payload \in {<<>>, <<255>>}}
    \cup {Frame(1, <<>>), Frame(5, <<255>>), Frame(7, <<>>),
          Frame(7, to_be_bytes(1) \o to_be_bytes(10)),
          Frame(7, to_be_bytes(1) \o to_be_bytes(10) \o <<1, 2>>)}

\* The messages handed to send.
SentMessages == {Interested, Request(258, 10, 16909060), Unchoke}

\* Neither receive nor send has been called.
NoPeerMessageCall ==
    [op |-> "none", result |-> PmSent, keep_alives |-> 0, frame |-> None]

\* The number of leading keep-alives of a sequence of frames.
RECURSIVE LeadingKeepAlives(_)
LeadingKeepAlives(frames) ==
    IF frames = <<>> \/ ~Head(frames).keep_alive THEN 0
    ELSE 1 + LeadingKeepAlives(Tail(frames))

\* The peer writes a frame or a keep-alive.
peer_writes ==
    /\ pm_last.result.kind = "Ok"
    /\ Len(pm_frames) < MaxUnreadFrames
    /\ \E frame \in PeerFrames \cup {KeepAlive} :
         /\ pm_src' = pm_src \o FrameBytes(frame)
         /\ pm_frames' = Append(pm_frames, frame)
    /\ UNCHANGED <<pm_dst, pm_last>>
    /\ UNCHANGED <<dlVars, rcfVars, cmpVars, emVars, hsVars, scVars, ppVars,
                 bdVars, tiVars, trVars, pcVars, prVars, uiVars>>

\* PeerMessage::send; the bytes written come back on the stream read.
peer_message_send ==
    /\ pm_last.result.kind = "Ok"
    /\ Len(pm_frames) < MaxUnreadFrames
    /\ \E message \in SentMessages :
       \E w \in {send(message)} :
         /\ pm_dst' = w.bytes
         /\ pm_src' = pm_src \o w.bytes
         /\ pm_frames' = IF w.bytes = <<>> THEN pm_frames
                         ELSE Append(pm_frames, Echo(message, w.bytes))
         /\ pm_last' = [op |-> "send", result |-> w.result, keep_alives |-> 0,
                        frame |-> None]
    /\ UNCHANGED <<dlVars, rcfVars, cmpVars, emVars, hsVars, scVars, ppVars,
                 bdVars, tiVars, trVars, pcVars, prVars, uiVars>>

\* PeerMessage::receive.
peer_message_receive ==
    /\ pm_last.result.kind = "Ok"
    /\ \E r \in {receive(pm_src)} :
       \E k \in {LeadingKeepAlives(pm_frames)} :
         /\ pm_src' = r.rest
         /\ pm_frames' = IF r.result.kind = "Ok"
                         THEN SubSeq(pm_frames, k + 2, Len(pm_frames))
                         ELSE <<>>
         /\ pm_last' = [op |-> "receive", result |-> r.result,
                        keep_alives |-> r.keep_alives,
                        frame |-> IF k < Len(pm_frames) THEN Some(pm_frames[k + 1])
                                  ELSE None]
    /\ UNCHANGED pm_dst
    /\ UNCHANGED <<dlVars, rcfVars, cmpVars, emVars, hsVars, scVars, ppVars,
                 bdVars, tiVars, trVars, pcVars, prVars, uiVars>>

(***************************************************************************)
(* HandshakeMessage.  The message is the record of its fields; the struct  *)
(* is repr(C, packed) with fields of bytes only, so its memory is the      *)
(* fields one after the other in the order they are declared.              *)
(***************************************************************************)
\* b"BitTorrent protocol"
PROTOCOL_ID ==
    <<66, 105, 116, 84, 111, 114, 114, 101, 110, 116, 32,
      112, 114, 111, 116, 111, 99, 111, 108>>

HandshakeMessage_new(info_hash, peer_id) ==
    [pstrlen |-> Len(PROTOCOL_ID), pstr |-> PROTOCOL_ID,
     reserved |-> [i \in 1..8 |-> 0], info_hash |-> info_hash, peer_id |-> peer_id]

\* Self::default(): every byte zero.
HandshakeMessage_default ==
    [pstrlen |-> 0, pstr |-> [i \in 1..19 |-> 0], reserved |-> [i \in 1..8 |-> 0],
     info_hash |-> [i \in 1..20 |-> 0], peer_id |-> [i \in 1..20 |-> 0]]

\* A slip: peer_id is laid out before info_hash.
struct_bytes_swapped(message) ==
    <<message.pstrlen>> \o message.pstr \o message.reserved
        \o message.peer_id \o message.info_hash

\* The memory of the struct (lines 9-15), size_of::<Self>() bytes.
struct_bytes(message) ==
    <<message.pstrlen>> \o message.pstr \o message.reserved
        \o message.info_hash \o message.peer_id

\* size_of::<Self>()
size_of_HandshakeMessage == Len(struct_bytes(HandshakeMessage_default))

\* The struct whose memory is the given bytes.
struct_of_bytes(bytes) ==
    [pstrlen |-> bytes[1], pstr |-> SubSeq(bytes, 2, 20),
     reserved |-> SubSeq(bytes, 21, 28), info_hash |-> SubSeq(bytes, 29, 48),
     peer_id |-> SubSeq(bytes, 49, 68)]

HsOk(message) == [kind |-> "Ok", message |-> Some(message)]
HsSent == [kind |-> "Ok", message |-> None]
HsIoError == [kind |-> "Io", message |-> None]

\* HandshakeMessage::send: the bytes written.
HandshakeMessage_send(message) == struct_bytes(message)

\* HandshakeMessage::receive: what it returns and the rest of the stream.
HandshakeMessage_receive(src) ==
    LET r == read_exact(src, size_of_HandshakeMessage)
    IN  IF ~r.ok THEN [result |-> HsIoError, rest |-> <<>>]
        ELSE [result |-> HsOk(struct_of_bytes(r.bytes)), rest |-> r.rest]

\* The info hashes and peer ids used.
InfoHashes == {[i \in 1..20 |-> 1], [i \in 1..20 |-> i]}
PeerIds == {[i \in 1..20 |-> 2], [i \in 1..20 |-> 255 - i]}

\* The handshakes a peer writes: the protocol's, and one of another
\* protocol with reserved bits set.
PeerHandshakes ==
    {HandshakeMessage_new(h, id) : h \in InfoHashes, id \in PeerIds}
    \cup {[HandshakeMessage_new(h, id) EXCEPT !.pstr = [i \in 1..19 |-> 65],
                                            !.reserved = [i \in 1..8 |-> 128]] :
             h \in {[i \in 1..20 |-> 1]}, id \in {[i \in 1..20 |-> 2]}}

NoHandshakeCall ==
    [op |-> "none", message |-> None, result |-> HsSent, read |-> 0, echo |-> FALSE]

\* The peer writes a handshake.
peer_writes_handshake ==
    /\ hs_last.result.kind = "Ok"
    /\ Len(hs_unread) < MaxUnreadHandshakes
    /\ \E message \in PeerHandshakes :
         /\ hs_src' = hs_src \o struct_bytes(message)
         /\ hs_unread' = Append(hs_unread, [message |-> message, echo |-> FALSE])
    /\ UNCHANGED <<hs_dst, hs_last>>
    /\ UNCHANGED <<dlVars, rcfVars, cmpVars, emVars, pmVars, scVars, ppVars,
                 bdVars, tiVars, trVars, pcVars, prVars, uiVars>>

\* HandshakeMessage::new(info_hash, peer_id).send(dst); the bytes written
\* come back on the stream read.
handshake_send ==
    /\ hs_last.result.kind = "Ok"
    /\ Len(hs_unread) < MaxUnreadHandshakes
    /\ \E info_hash \in InfoHashes, peer_id \in PeerIds :
       \E message \in {HandshakeMessage_new(info_hash, peer_id)} :
         /\ hs_dst' = HandshakeMessage_send(message)
         /\ hs_src' = hs_src \o HandshakeMessage_send(message)
         /\ hs_unread' = Append(hs_unread, [message |-> message, echo |-> TRUE])
         /\ hs_last' = [op |-> "send", message |-> Some(message), result |-> HsSent,
                        read |-> 0, echo |-> FALSE]
    /\ UNCHANGED <<dlVars, rcfVars, cmpVars, emVars, pmVars, scVars, ppVars,
                 bdVars, tiVars, trVars, pcVars, prVars, uiVars>>

\* HandshakeMessage::receive(src)
handshake_receive ==
    /\ hs_last.result.kind = "Ok"
    /\ \E r \in {HandshakeMessage_receive(hs_src)} :
         /\ hs_src' = r.rest
         /\ hs_unread' = IF hs_unread = <<>> THEN <<>> ELSE Tail(hs_unread)
         /\ hs_last' = [op |-> "receive",
                        message |-> IF hs_unread = <<>> THEN None
                                    ELSE Some(Head(hs_unread).message),
                        result |-> r.result,
                        read |-> IF r.result.kind = "Ok" THEN Len(hs_src) - Len(r.rest)
                                 ELSE Len(hs_src),
                        echo |-> hs_unread # <<>> /\ Head(hs_unread).echo]
    /\ UNCHANGED hs_dst
    /\ UNCHANGED <<dlVars, rcfVars, cmpVars, emVars, pmVars, scVars, ppVars,
                 bdVars, tiVars, trVars, pcVars, prVars, uiVars>>

(***************************************************************************)
(* SeqPeerConnector::connect: a lazy iterator over the addresses, which    *)
(* the consumer pulls with next().                                         *)
(***************************************************************************)
\* What try_connect returned for an address.
ConnectResult(ok, addr, index) == [ok |-> ok, addr |-> addr, index |-> index]

\* A slip: the result of a failed connect is yielded as well.
filter_map_any(connected) == Some(connected)

\* filter_map(Result::ok)
filter_map_ok(connected) == IF connected.ok THEN Some(connected) ELSE None

\* The consumer calls next() on the iterator.
consumer_next ==
    /\ sc_pc = "idle"
    /\ sc_pc' = "next"
    /\ UNCHANGED <<sc_addrs, sc_index, sc_connecting, sc_attempts, sc_outcomes,
                   sc_progress, sc_yielded>>
    /\ UNCHANGED <<dlVars, rcfVars, cmpVars, emVars, pmVars, hsVars, ppVars,
                 bdVars, tiVars, trVars, pcVars, prVars, uiVars>>

\* Inside next(): the map closure takes the next address, reports progress
\* and calls try_connect.
try_connect_begin ==
    /\ sc_pc = "next"
    /\ sc_connecting = None
    /\ sc_index < Len(sc_addrs)
    /\ sc_progress' = Append(sc_progress, <<sc_addrs[sc_index + 1], sc_index>>)
    /\ sc_connecting' = Some(sc_addrs[sc_index + 1])
    /\ sc_attempts' = Append(sc_attempts,
                             [addr |-> sc_addrs[sc_index + 1], index |-> sc_index])
    /\ sc_index' = sc_index + 1
    /\ UNCHANGED <<sc_addrs, sc_pc, sc_outcomes, sc_yielded>>
    /\ UNCHANGED <<dlVars, rcfVars, cmpVars, emVars, pmVars, hsVars, ppVars,
                 bdVars, tiVars, trVars, pcVars, prVars, uiVars>>

\* Inside next(): TcpStream::connect_timeout returns; filter_map yields the
\* stream, or goes on to the next address.
try_connect_end ==
    /\ sc_pc = "next"
    /\ sc_connecting # None
    /\ \E ok \in BOOLEAN :
       \E item \in {filter_map_ok(ConnectResult(ok, Unwrap(sc_connecting), sc_index - 1))} :
         /\ sc_outcomes' = Append(sc_outcomes, ok)
         /\ sc_yielded' = IF item = None THEN sc_yielded
                          ELSE Append(sc_yielded, Unwrap(item))
         /\ sc_pc' = IF item = None THEN "next" ELSE "idle"
    /\ sc_connecting' = None
    /\ UNCHANGED <<sc_addrs, sc_index, sc_attempts, sc_progress>>
    /\ UNCHANGED <<dlVars, rcfVars, cmpVars, emVars, pmVars, hsVars, ppVars,
                 bdVars, tiVars, trVars, pcVars, prVars, uiVars>>

\* Inside next(): the addresses are exhausted, next() returns None.
iterator_ends ==
    /\ sc_pc = "next"
    /\ sc_connecting = None
    /\ sc_index >= Len(sc_addrs)
    /\ sc_pc' = "done"
    /\ UNCHANGED <<sc_addrs, sc_index, sc_connecting, sc_attempts, sc_outcomes,
                   sc_progress, sc_yielded>>
    /\ UNCHANGED <<dlVars, rcfVars, cmpVars, emVars, pmVars, hsVars, ppVars,
                 bdVars, tiVars, trVars, pcVars, prVars, uiVars>>

(***************************************************************************)
(* ParPeerConnector::connect: PeerPoller, an iterator over the probes that *)
(* a readiness event showed connected.  Token(i) stands for entry i + 1 of *)
(* the addresses.  A socket is "connecting" until the operating system     *)
(* establishes it or gives up on it; the change raises one readiness event *)
(* for its token.  Poll::poll, Registry::deregister and set_nonblocking    *)
(* return io results, which the code propagates with `?`.                  *)
(***************************************************************************)
Tokens(addrs) == 0..(Len(addrs) - 1)

\* PeerPoller::new: every address has a probe in state Connecting that is
\* registered with the poll.
PeerPoller_new(addrs) ==
    [probes |-> [t \in Tokens(addrs) |-> "Connecting"],
     poll |-> Tokens(addrs),
     peers_probed |-> 0]

\* The sockets PeerProbe::connect opened: non-blocking, connecting.
Sockets_new(addrs) ==
    [t \in Tokens(addrs) |-> [state |-> "connecting", ready |-> FALSE, blocking |-> FALSE]]

\* What next() returned: Some(stream of token) or None, and why.
NotCalled == [kind |-> "NotCalled", token |-> 0, cause |-> ""]
YieldSome(token) == [kind |-> "Some", token |-> token, cause |-> "connected"]
YieldNone(cause) == [kind |-> "None", token |-> 0, cause |-> cause]

NothingSeen == [connected |-> {}, errored |-> {}, dropped |-> {}]

\* The probes of the map that are in a state.
ProbesIn(probes, state) == {t \in DOMAIN probes : probes[t] = state}
Without(probes, tokens) == [t \in (DOMAIN probes) \ tokens |-> probes[t]]

\* All the orders in which a HashMap may iterate over a set of tokens.
Orders(tokens) ==
    {o \in [1..Cardinality(tokens) -> tokens] :
        \A i, j \in 1..Cardinality(tokens) : o[i] = o[j] => i = j}

\* A slip: a readiness event is taken for a connection.
handle_connect_event_any(peer_addr_ok) == "Connected"

\* PeerProbe::handle_connect_event
handle_connect_event(peer_addr_ok) == IF peer_addr_ok THEN "Connected" ELSE "Error"

\* PeerPoller::update_probe_states
update_probe_states(probes, events, sockets) ==
    [t \in DOMAIN probes |->
        IF t \in events THEN handle_connect_event(sockets[t].state = "established")
        ELSE probes[t]]

\* A slip: the result of set_nonblocking is dropped.
into_std_tcp_stream_unchecked(set_nonblocking_ok) ==
    [ok |-> TRUE, blocking |-> set_nonblocking_ok]

\* PeerProbe::into_std_tcp_stream
into_std_tcp_stream(set_nonblocking_ok) ==
    [ok |-> set_nonblocking_ok, blocking |-> set_nonblocking_ok]

\* A slip: the callback is given the count before it is incremented.
unregister_probe_count_before(plr, reports, addrs, token, deregister_ok) ==
    IF deregister_ok
    THEN [ok |-> TRUE,
          poller |-> [plr EXCEPT !.poll = @ \ {token}, !.peers_probed = @ + 1],
          progress |-> Append(reports, <<addrs[token + 1], plr.peers_probed>>)]
    ELSE [ok |-> FALSE, poller |-> plr, progress |-> reports]

\* PeerPoller::unregister_probe on a probe taken out of the map: the poller
\* and the progress reports after it, and whether deregister succeeded.
unregister_probe(plr, reports, addrs, token, deregister_ok) ==
    IF deregister_ok
    THEN [ok |-> TRUE,
          poller |-> [plr EXCEPT !.poll = @ \ {token}, !.peers_probed = @ + 1],
          progress |-> Append(reports, <<addrs[token + 1], plr.peers_probed + 1>>)]
    ELSE [ok |-> FALSE, poller |-> plr, progress |-> reports]

\* PeerPoller::remove_errored_probes, the map iterated in the given order;
\* fail_at is the position of the probe whose deregister fails (0: none).
RECURSIVE remove_errored_probes(_, _, _, _, _, _)
remove_errored_probes(plr, reports, addrs, order, fail_at, lost) ==
    IF order = <<>>
    THEN [ok |-> TRUE, poller |-> plr, progress |-> reports, dropped |-> lost]
    ELSE LET token   == Head(order)
             removed == [plr EXCEPT !.probes = Without(@, {token})]
             unreg   == unregister_probe(removed, reports, addrs, token, fail_at # 1)
         IN  IF ~unreg.ok
             THEN [ok |-> FALSE, poller |-> [removed EXCEPT !.poll = @ \ {token}],
                   progress |-> reports, dropped |-> lost \cup {token}]
             ELSE remove_errored_probes(unreg.poller, unreg.progress, addrs, Tail(order),
                                        IF fail_at = 0 THEN 0 ELSE fail_at - 1, lost)

\* A slip: an empty poll does not end the call.
events_is_empty_never(events) == FALSE

\* events.is_empty()
events_is_empty(events) == events = {}

\* The operating system establishes a connection, or gives up on it.
socket_changes ==
    /\ \E t \in DOMAIN pp_sockets, outcome \in {"established", "failed"} :
         /\ pp_sockets[t].state = "connecting"
         /\ t \in poller.poll
         /\ pp_sockets' = [pp_sockets EXCEPT ![t] = [@ EXCEPT !.state = outcome,
                                                       !.ready = TRUE]]
    /\ UNCHANGED <<pp_addrs, poller, pp_pc, pp_ret, pp_yielded, pp_progress, pp_seen>>
    /\ UNCHANGED <<dlVars, rcfVars, cmpVars, emVars, pmVars, hsVars, scVars,
                 bdVars, tiVars, trVars, pcVars, prVars, uiVars>>

\* The consumer calls next() on the iterator.
poller_next ==
    /\ pp_pc = "idle"
    /\ pp_pc' = "loop"
    /\ UNCHANGED <<pp_addrs, poller, pp_sockets, pp_ret, pp_yielded, pp_progress, pp_seen>>
    /\ UNCHANGED <<dlVars, rcfVars, cmpVars, emVars, pmVars, hsVars, scVars,
                 bdVars, tiVars, trVars, pcVars, prVars, uiVars>>

\* Inside wait_for_connect_event: get_connected_stream (lines 84-86).  With
\* a connected probe in the map, the probe is removed, unregistered and
\* turned into a blocking stream, and next() returns; an io error of either
\* step ends next() with None and the probe is dropped.
get_connected_stream ==
    /\ pp_pc = "loop"
    /\ IF ProbesIn(poller.probes, "Connected") = {}
       THEN /\ pp_pc' = "poll"
            /\ UNCHANGED <<poller, pp_sockets, pp_ret, pp_yielded, pp_progress, pp_seen>>
       ELSE \E token \in ProbesIn(poller.probes, "Connected"),
               deregister_ok \in BOOLEAN, set_nonblocking_ok \in BOOLEAN :
              LET removed == [poller EXCEPT !.probes = Without(@, {token})]
                  unreg   == unregister_probe(removed, pp_progress, pp_addrs, token,
                                              deregister_ok)
                  stream  == into_std_tcp_stream(set_nonblocking_ok)
              IN  /\ pp_pc' = "idle"
                  /\ pp_progress' = unreg.progress
                  /\ IF ~unreg.ok
                     THEN /\ poller' = [removed EXCEPT !.poll = @ \ {token}]
                          /\ pp_ret' = YieldNone("deregister_error")
                          /\ pp_seen' = [pp_seen EXCEPT !.dropped = @ \cup {token}]
                          /\ UNCHANGED <<pp_sockets, pp_yielded>>
                     ELSE /\ poller' = unreg.poller
                          /\ pp_sockets' = [pp_sockets EXCEPT ![token].blocking =
                                                                stream.blocking]
                          /\ IF stream.ok
                             THEN /\ pp_ret' = YieldSome(token)
                                  /\ pp_yielded' = Append(pp_yielded, token)
                                  /\ UNCHANGED pp_seen
                             ELSE /\ pp_ret' = YieldNone("switch_error")
                                  /\ pp_seen' = [pp_seen EXCEPT !.dropped = @ \cup {token}]
                                  /\ UNCHANGED pp_yielded
    /\ UNCHANGED pp_addrs
    /\ UNCHANGED <<dlVars, rcfVars, cmpVars, emVars, pmVars, hsVars, scVars,
                 bdVars, tiVars, trVars, pcVars, prVars, uiVars>>

\* Inside wait_for_connect_event: poll, then update_probe_states and
\* remove_errored_probes (lines 88-94).  The poll fails, or returns the
\* events that are ready (any of them, at least one), or times out with no
\* event.
poll_returns ==
    /\ pp_pc = "poll"
    /\ \E poll_ok \in BOOLEAN :
       LET ready == {t \in poller.poll : pp_sockets[t].ready}
       IN  IF ~poll_ok
           THEN /\ pp_pc' = "idle"
                /\ pp_ret' = YieldNone("poll_error")
                /\ UNCHANGED <<poller, pp_sockets, pp_progress, pp_seen>>
           ELSE \E events \in SUBSET ready :
                  /\ ready # {} => events # {}
                  /\ IF events_is_empty(events)
                     THEN /\ pp_pc' = "idle"
                          /\ pp_ret' = YieldNone("empty_poll")
                          /\ UNCHANGED <<poller, pp_sockets, pp_progress, pp_seen>>
                     ELSE LET updated == update_probe_states(poller.probes, events,
                                                             pp_sockets)
                              errored == ProbesIn(updated, "Error")
                          IN  \E order \in Orders(errored), fail_at \in 0..Cardinality(errored) :
                                LET res == remove_errored_probes(
                                              [poller EXCEPT !.probes = updated],
                                              pp_progress, pp_addrs, order, fail_at, {})
                                IN  /\ poller' = res.poller
                                    /\ pp_progress' = res.progress
                                    /\ pp_sockets' =
                                          [t \in DOMAIN pp_sockets |->
                                             IF t \in events
                                             THEN [pp_sockets[t] EXCEPT !.ready = FALSE]
                                             ELSE pp_sockets[t]]
                                    /\ pp_seen' =
                                          [connected |-> pp_seen.connected \cup
                                              {t \in events : pp_sockets[t].state = "established"},
                                           errored |-> pp_seen.errored \cup
                                              {t \in events : pp_sockets[t].state # "established"},
                                           dropped |-> pp_seen.dropped \cup res.dropped]
                                    /\ IF res.ok
                                       THEN pp_pc' = "loop" /\ UNCHANGED pp_ret
                                       ELSE /\ pp_pc' = "idle"
                                            /\ pp_ret' = YieldNone("remove_error")
    /\ UNCHANGED <<pp_addrs, pp_yielded>>
    /\ UNCHANGED <<dlVars, rcfVars, cmpVars, emVars, pmVars, hsVars, scVars,
                 bdVars, tiVars, trVars, pcVars, prVars, uiVars>>

(***************************************************************************)
(* bencoding::Decoder.  The input is a sequence of bytes (ASCII codes); a  *)
(* decoding method is an operator of the input and the decoder's position  *)
(* current_pos, and rest_data is the input from current_pos on.  It        *)
(* returns Ok with a value and the new position, an error, or it panics.   *)
(***************************************************************************)
LIST_START_DELIMITER == 108
DICT_START_DELIMITER == 100
INT_START_DELIMITER == 105
STRING_DELIMITER == 58
TRAILING_DELIMITER == 101

\* bencoding::types::Sha1::calculate, a collision-free digest: the number
\* of the bytes, then the bytes.
Sha1_calculate(bytes) == <<Len(bytes)>> \o bytes

\* BencValue: Int(i64), ByteString, List(Vec<BencValue>), Dict.
BencValue(type, int, bytes, list, sha1, values) ==
    [type |-> type, int |-> int, bytes |-> bytes, list |-> list,
     sha1 |-> sha1, values |-> values]
NoValue == BencValue("", 0, <<>>, <<>>, <<>>, <<>>)
BencInt(value) == BencValue("Int", value, <<>>, <<>>, <<>>, <<>>)
BencList(values) == BencValue("List", 0, <<>>, values, <<>>, <<>>)
BencDict(dict) == BencValue("Dict", 0, <<>>, <<>>, dict.sha1, dict.values)

\* A slip: the bytes of a string go through a UTF-8 conversion.
from_utf8_lossy(bytes) == [i \in 1..Len(bytes) |-> IF bytes[i] < 128 THEN bytes[i] ELSE 65533]
ByteString_new_lossy(bytes) == from_utf8_lossy(bytes)

\* ByteString::new
ByteString_new(bytes) == bytes
BencByteString(string) == BencValue("ByteString", 0, string, <<>>, <<>>, <<>>)

\* Dict::new, and HashMap::new and HashMap::insert on its values.
Dict_new(sha1, values) == [sha1 |-> sha1, values |-> values]
HashMap_new == <<>>
HashMap_insert(values, key, value) ==
    [k \in (DOMAIN values) \cup {key} |-> IF k = key THEN value ELSE values[k]]

\* DecodeError
StringDelimiterNotFound ==
    [error |-> "StringDelimiterNotFound", text |-> <<>>, expected |-> 0, actual |-> 0]
InvalidStringLengthValue(text) ==
    [error |-> "InvalidStringLengthValue", text |-> text, expected |-> 0, actual |-> 0]
InvalidIntValue(text) ==
    [error |-> "InvalidIntValue", text |-> text, expected |-> 0, actual |-> 0]
EndingDelimiterNotFound ==
    [error |-> "EndingDelimiterNotFound", text |-> <<>>, expected |-> 0, actual |-> 0]
NoDecodeError == [error |-> "", text |-> <<>>, expected |-> 0, actual |-> 0]

\* A slip: the two numbers of the error change places.
StringLengthValueTooBig_swapped(expected, actual) ==
    [error |-> "StringLengthValueTooBig", text |-> <<>>, expected |-> actual,
     actual |-> expected]

StringLengthValueTooBig(expected, actual) ==
    [error |-> "StringLengthValueTooBig", text |-> <<>>, expected |-> expected,
     actual |-> actual]

\* What a decoding method returns.
DecOk(value, pos) == [kind |-> "Ok", value |-> value, pos |-> pos, error |-> NoDecodeError]
DecErr(error) == [kind |-> "Err", value |-> 0, pos |-> 0, error |-> error]
DecPanic == [kind |-> "Panic", value |-> 0, pos |-> 0, error |-> NoDecodeError]
NotDecoded == [kind |-> "", value |-> 0, pos |-> 0, error |-> NoDecodeError]

\* rest_data at position pos: &raw_data[current_pos..]
rest_data(raw_data, pos) == Slice(raw_data, pos, Len(raw_data))

\* iter().position(|&b| b == byte): the 0-based index of the first such
\* byte, -1 for None.
position(data, byte) ==
    IF \E i \in 1..Len(data) : data[i] = byte
    THEN (CHOOSE i \in 1..Len(data) :
             data[i] = byte /\ \A j \in 1..(i - 1) : data[j] # byte) - 1
    ELSE -1

\* The number a string of decimal digits denotes.
RECURSIVE DecimalValue(_)
DecimalValue(digits) ==
    IF digits = <<>> THEN 0
    ELSE DecimalValue(SubSeq(digits, 1, Len(digits) - 1)) * 10 + (digits[Len(digits)] - 48)

IsDigits(str) == str # <<>> /\ \A i \in 1..Len(str) : str[i] \in 48..57

\* str::parse::<usize>: digits after an optional '+'.
parse_usize(str) ==
    LET digits == IF str # <<>> /\ str[1] = 43 THEN Tail(str) ELSE str
    IN  [ok |-> IsDigits(digits), value |-> IF IsDigits(digits) THEN DecimalValue(digits) ELSE 0]

\* str::parse::<i64>: digits after an optional '+' or '-'.
parse_i64(str) ==
    LET signed == str # <<>> /\ str[1] \in {43, 45}
        digits == IF signed THEN Tail(str) ELSE str
    IN  [ok |-> IsDigits(digits),
         value |-> IF ~IsDigits(digits) THEN 0
                   ELSE IF signed /\ str[1] = 45 THEN 0 - DecimalValue(digits)
                   ELSE DecimalValue(digits)]

\* A slip: the digest covers the data from its start.
calculate_sha1_from_start(raw_data, start_index, end_index) ==
    Sha1_calculate(Slice(raw_data, 0, end_index))

\* Decoder::calculate_sha1
calculate_sha1(raw_data, start_index, end_index) ==
    Sha1_calculate(Slice(raw_data, start_index, end_index))

\* Decoder::at_trailing_delimiter
at_trailing_delimiter(raw_data, pos) ==
    IF rest_data(raw_data, pos) = <<>> THEN DecErr(EndingDelimiterNotFound)
    ELSE DecOk(rest_data(raw_data, pos)[1] = TRAILING_DELIMITER, pos)

\* Decoder::decode_string_length
decode_string_length(raw_data, pos) ==
    LET rest            == rest_data(raw_data, pos)
        delimiter_index == position(rest, STRING_DELIMITER)
        length_str      == from_utf8_lossy(Slice(rest, 0, delimiter_index))
        string_length   == parse_usize(length_str)
    IN  IF delimiter_index = -1 THEN DecErr(StringDelimiterNotFound)
        ELSE IF ~string_length.ok THEN DecErr(InvalidStringLengthValue(length_str))
        ELSE DecOk(string_length.value, pos + delimiter_index + 1)

\* Decoder::decode_string
decode_string(raw_data, pos) ==
    LET len == decode_string_length(raw_data, pos)
    IN  IF len.kind # "Ok" THEN len
        ELSE LET rest == rest_data(raw_data, len.pos)
             IN  IF len.value > Len(rest)
                 THEN DecErr(StringLengthValueTooBig(len.value, Len(rest)))
                 ELSE DecOk(ByteString_new(Slice(rest, 0, len.value)), len.pos + len.value)

\* Decoder::decode_int, called at the 'i'.
decode_int(raw_data, pos) ==
    LET rest      == rest_data(raw_data, pos + 1)
        end_index == position(rest, TRAILING_DELIMITER)
        int_str   == from_utf8_lossy(Slice(rest, 0, end_index))
        parsed    == parse_i64(int_str)
    IN  IF end_index = -1 THEN DecErr(EndingDelimiterNotFound)
        ELSE IF ~parsed.ok THEN DecErr(InvalidIntValue(int_str))
        ELSE DecOk(parsed.value, pos + 1 + end_index + 1)

\* The values a while loop inserted into its HashMap, one after the other.
RECURSIVE HashMap_of(_)
HashMap_of(entries) ==
    IF entries = <<>> THEN HashMap_new
    ELSE HashMap_insert(HashMap_of(SubSeq(entries, 1, Len(entries) - 1)),
                        entries[Len(entries)][1], entries[Len(entries)][2])

\* The `?` after a call: an error or a panic of the call ends the method
\* with it, a value goes on to the rest of the method.
and_then(returned, rest(_)) ==
    CHOOSE out \in {IF r.kind = "Ok" THEN rest(r) ELSE r : r \in {returned}} : TRUE

\* The methods of Decoder that call one another (decode, decode_dict,
\* decode_list and their while loops), as one function of the method and
\* the position current_pos it is called at.  A while loop returns what it
\* collected from its position on, and the position of the 'e' it stopped
\* at.
Decoder_methods(raw_data) ==
    LET call[m \in {"decode", "decode_dict", "decode_dict_loop", "decode_list",
                    "decode_list_loop"} \X (0..Len(raw_data))] ==
          LET pos == m[2]
          IN  IF m[1] = "decode"
              THEN \* rest_data[0] is read first, which panics at the end of the data
                   IF pos >= Len(raw_data) THEN DecPanic
                   ELSE IF raw_data[pos + 1] = INT_START_DELIMITER
                   THEN and_then(decode_int(raw_data, pos),
                                 LAMBDA value : DecOk(BencInt(value.value), value.pos))
                   ELSE IF raw_data[pos + 1] = DICT_START_DELIMITER
                   THEN and_then(call[<<"decode_dict", pos>>],
                                 LAMBDA value : DecOk(BencDict(value.value), value.pos))
                   ELSE IF raw_data[pos + 1] = LIST_START_DELIMITER
                   THEN and_then(call[<<"decode_list", pos>>],
                                 LAMBDA value : DecOk(BencList(value.value), value.pos))
                   ELSE and_then(decode_string(raw_data, pos),
                                 LAMBDA value : DecOk(BencByteString(value.value), value.pos))
              ELSE IF m[1] = "decode_dict"
              THEN \* move_by(1) slices raw_data[current_pos..], which panics past
                   \* the end of the data
                   IF pos + 1 > Len(raw_data) THEN DecPanic
                   ELSE and_then(call[<<"decode_dict_loop", pos + 1>>],
                           LAMBDA entries :
                              DecOk(Dict_new(calculate_sha1(raw_data, pos, entries.pos + 1),
                                             HashMap_of(entries.value)),
                                    entries.pos + 1))
              ELSE IF m[1] = "decode_dict_loop"
              THEN and_then(at_trailing_delimiter(raw_data, pos),
                      LAMBDA at :
                         IF at.value THEN DecOk(<<>>, pos)
                         ELSE and_then(decode_string(raw_data, pos),
                                 LAMBDA key :
                                    and_then(call[<<"decode", key.pos>>],
                                       LAMBDA value :
                                          and_then(call[<<"decode_dict_loop", value.pos>>],
                                             LAMBDA more :
                                                DecOk(<<<<key.value, value.value>>>>
                                                         \o more.value, more.pos)))))
              ELSE IF m[1] = "decode_list"
              THEN and_then(call[<<"decode_list_loop", pos + 1>>],
                            LAMBDA values : DecOk(values.value, values.pos + 1))
              ELSE and_then(at_trailing_delimiter(raw_data, pos),
                      LAMBDA at :
                         IF at.value THEN DecOk(<<>>, pos)
                         ELSE and_then(call[<<"decode", pos>>],
                                 LAMBDA value :
                                    and_then(call[<<"decode_list_loop", value.pos>>],
                                       LAMBDA more :
                                          DecOk(<<value.value>> \o more.value, more.pos))))
    IN  call

\* Decoder::decode at position pos.
decode(raw_data, pos) ==
    IF pos >= Len(raw_data) THEN DecPanic
    ELSE Decoder_methods(raw_data)[<<"decode", pos>>]

\* Decoder::decode_dict at position pos.
decode_dict(raw_data, pos) ==
    IF pos + 1 > Len(raw_data) THEN DecPanic
    ELSE Decoder_methods(raw_data)[<<"decode_dict", pos>>]

\* How an input was made.
Origin(kind, text, value, cut, s, trailing) ==
    [kind |-> kind, text |-> text, value |-> value, cut |-> cut, s |-> s,
     trailing |-> trailing]

\* decode() on a new decoder.
decoder_decode ==
    /\ bd_called = "new"
    /\ bd_called' = "decode"
    /\ bd_result' = decode(bd_raw_data, 0)
    /\ UNCHANGED <<bd_raw_data, bd_origin>>
    /\ UNCHANGED <<dlVars, rcfVars, cmpVars, emVars, pmVars, hsVars, scVars,
                 ppVars, tiVars, trVars, pcVars, prVars, uiVars>>

\* decode_dict() on a new decoder.
decoder_decode_dict ==
    /\ bd_called = "new"
    /\ bd_called' = "decode_dict"
    /\ bd_result' = decode_dict(bd_raw_data, 0)
    /\ UNCHANGED <<bd_raw_data, bd_origin>>
    /\ UNCHANGED <<dlVars, rcfVars, cmpVars, emVars, pmVars, hsVars, scVars,
                 ppVars, tiVars, trVars, pcVars, prVars, uiVars>>

\* The decimal digits of a number, as format! writes them.
RECURSIVE to_string(_)
to_string(n) ==
    IF n < 0 THEN <<45>> \o to_string(0 - n)
    ELSE IF n < 10 THEN <<48 + n>>
    ELSE to_string(n \div 10) \o <<48 + (n % 10)>>

\* "<len>:" and the bytes of a string.
EncodeString(s) == to_string(Len(s)) \o <<STRING_DELIMITER>> \o s

\* The texts of a sequence, one after the other.
RECURSIVE Concat(_)
Concat(texts) == IF texts = <<>> THEN <<>> ELSE Head(texts) \o Concat(Tail(texts))

(***************************************************************************)
(* torrent::Info, deserialized from the info dict of a metainfo            *)
(***************************************************************************)
\* InfoInternal, the fields as they stand in the metainfo.  typed says that
\* all four keys are there with values of their types.
InfoInternal(typed, name, piece_len, length, pieces) ==
    [typed |-> typed, name |-> name, piece_length |-> piece_len,
     length |-> length, pieces |-> pieces]
NoInfoInternal == InfoInternal(FALSE, <<>>, 0, 0, <<>>)

\* Info
Info(sha1, name, piece_len, length, pieces) ==
    [sha1 |-> sha1, name |-> name, piece_length |-> piece_len,
     length |-> length, pieces |-> pieces]
NoInfo == Info(<<>>, <<>>, 0, 0, <<>>)

\* Result<Info, D::Error>
InfoOk(info) == [called |-> TRUE, ok |-> TRUE, info |-> info]
InfoErr == [called |-> TRUE, ok |-> FALSE, info |-> NoInfo]
InfoNotCalled == [called |-> FALSE, ok |-> FALSE, info |-> NoInfo]

\* serde_bencode::to_bytes(&info_internal): a dict of the four fields under
\* their keys "length", "name", "piece length", "pieces".
InfoInternal_to_bytes(info_internal) ==
    <<DICT_START_DELIMITER>>
       \o EncodeString(<<108, 101, 110, 103, 116, 104>>)
       \o <<INT_START_DELIMITER>> \o to_string(info_internal.length)
       \o <<TRAILING_DELIMITER>>
       \o EncodeString(<<110, 97, 109, 101>>)
       \o EncodeString(info_internal.name)
       \o EncodeString(<<112, 105, 101, 99, 101, 32, 108, 101, 110, 103, 116, 104>>)
       \o <<INT_START_DELIMITER>> \o to_string(info_internal.piece_length)
       \o <<TRAILING_DELIMITER>>
       \o EncodeString(<<112, 105, 101, 99, 101, 115>>)
       \o EncodeString(info_internal.pieces)
       \o <<TRAILING_DELIMITER>>

\* slice::chunks_exact: the whole chunks, what is left over is dropped.
chunks_exact(slice, chunk_size) ==
    [i \in 1..(Len(slice) \div chunk_size) |->
        SubSeq(slice, (i - 1) * chunk_size + 1, i * chunk_size)]

\* The size of a SHA-1 in the pieces blob.
SHA1_SIZE == 20

\* Sha1::from_bytes on a chunk
Sha1_from_bytes(value) == value

\* <Info as Deserialize>::deserialize
Info_deserialize(info_internal) ==
    IF ~info_internal.typed THEN InfoErr
    ELSE LET sha1   == Sha1_calculate(InfoInternal_to_bytes(info_internal))
             chunks == chunks_exact(info_internal.pieces, SHA1_SIZE)
             pieces == [i \in 1..Len(chunks) |-> Sha1_from_bytes(chunks[i])]
         IN  InfoOk(Info(sha1, info_internal.name, info_internal.piece_length,
                         info_internal.length, pieces))

\* A metainfo is read: its info dict has these fields, or lacks one.
metainfo_given ==
    /\ ti_pc = ""
    /\ \/ ti_internal' = NoInfoInternal
       \/ \E piece_len \in 0..MaxPieceLength, length \in 0..MaxFileLength,
             n \in 0..MaxPiecesLength :
             ti_internal' = InfoInternal(TRUE, <<97>>, piece_len, length,
                                         [i \in 1..n |-> i])
    /\ ti_pc' = "given"
    /\ UNCHANGED ti_result
    /\ UNCHANGED <<dlVars, rcfVars, cmpVars, emVars, pmVars, hsVars, scVars,
                 ppVars, bdVars, trVars, pcVars, prVars, uiVars>>

\* Info::deserialize(deserializer)
info_deserialize ==
    /\ ti_pc = "given"
    /\ ti_result' = Info_deserialize(ti_internal)
    /\ ti_pc' = "returned"
    /\ UNCHANGED ti_internal
    /\ UNCHANGED <<dlVars, rcfVars, cmpVars, emVars, pmVars, hsVars, scVars,
                 ppVars, bdVars, trVars, pcVars, prVars, uiVars>>

(***************************************************************************)
(* tracker::get_peer_list_from_response                                    *)
(***************************************************************************)
\* SocketAddr
SocketAddr(ip, port) == [ip |-> ip, port |-> port]

\* Result<Vec<SocketAddr>, Box<dyn Error>>, or a panic.
PeersOk(addrs) == [kind |-> "Ok", addrs |-> addrs]
PeersErr == [kind |-> "Err", addrs |-> <<>>]
PeersPanic == [kind |-> "Panic", addrs |-> <<>>]
PeersNotCalled == [kind |-> "", addrs |-> <<>>]

\* (ip, port).to_socket_addrs(): the host "a" has one address, "b" has
\* two, any other name has none and the lookup fails.
to_socket_addrs(ip, port) ==
    IF ip = <<97>> THEN [ok |-> TRUE, addrs |-> <<SocketAddr(1, port)>>]
    ELSE IF ip = <<98>>
    THEN [ok |-> TRUE, addrs |-> <<SocketAddr(2, port), SocketAddr(3, port)>>]
    ELSE [ok |-> FALSE, addrs |-> <<>>]

\* `*v as u16`
as_u16(v) == v % 65536

\* bencoding::decode_dict(data): a new Decoder's decode_dict.
bencoding_decode_dict(data) == decode_dict(data, 0)

\* Dict::get(key): Some(value) or None.
Dict_get(values, key) == IF key \in DOMAIN values THEN Some(values[key]) ELSE None

\* BencValue::as_list, as_dict, as_byte_string, as_int after Dict::get
as_list(value) == IF value # None /\ value[1].type = "List" THEN Some(value[1].list) ELSE None
as_dict(value) == IF value.type = "Dict" THEN Some(value.values) ELSE None
as_byte_string(value) ==
    IF value # None /\ value[1].type = "ByteString" THEN Some(value[1].bytes) ELSE None
as_int(value) == IF value # None /\ value[1].type = "Int" THEN Some(value[1].int) ELSE None

\* The closures of get_peer_list_from_response on one entry of the list:
\* the addresses of the peer, or a panic of one of the unwraps.
peer_to_socket_addrs(peer) ==
    LET dict == as_dict(peer)
    IN  IF dict = None THEN PeersPanic
        ELSE LET ip   == as_byte_string(Dict_get(dict[1], <<105, 112>>))
                 port == as_int(Dict_get(dict[1], <<112, 111, 114, 116>>))
             IN  IF ip = None THEN PeersPanic
                 ELSE IF port = None THEN PeersPanic
                 ELSE LET resolved == to_socket_addrs(from_utf8_lossy(ip[1]),
                                                      as_u16(port[1]))
                      IN  IF ~resolved.ok THEN PeersPanic
                          ELSE PeersOk(resolved.addrs)

\* get_peer_list_from_response
get_peer_list_from_response(tracker_response) ==
    LET decoded_response == bencoding_decode_dict(tracker_response)
    IN  IF decoded_response.kind = "Panic" THEN PeersPanic
        ELSE IF decoded_response.kind = "Err" THEN PeersErr
        ELSE LET peers_list ==
                    as_list(Dict_get(decoded_response.value.values,
                                     <<112, 101, 101, 114, 115>>))
             IN  IF peers_list = None THEN PeersPanic
                 ELSE LET x == [i \in 1..Len(peers_list[1]) |->
                                   peer_to_socket_addrs(peers_list[1][i])]
                      IN  IF \E i \in 1..Len(x) : x[i].kind = "Panic" THEN PeersPanic
                          ELSE PeersOk(Concat([i \in 1..Len(x) |-> x[i].addrs]))

\* get_peer_list_from_response(&response) on the body received.
tracker_get_peer_list ==
    /\ tr_pc = "received"
    /\ tr_result' = get_peer_list_from_response(tr_response)
    /\ tr_pc' = "returned"
    /\ UNCHANGED <<tr_origin, tr_response>>
    /\ UNCHANGED <<dlVars, rcfVars, cmpVars, emVars, pmVars, hsVars, scVars,
                 ppVars, bdVars, tiVars, pcVars, prVars, uiVars>>

(***************************************************************************)
(* PeerChannel::handshake.  The stream is the record [read_timeout,        *)
(* written, unread]: the timeout of its reads, the bytes written to the    *)
(* peer, and the bytes the peer wrote that are not read yet.  Every call   *)
(* on the stream may fail with an io error.                                *)
(***************************************************************************)
HANDSHAKE_TIMEOUT == 10
MESSAGE_READ_TIMEOUT == 60

\* What handshake returns.
ChOk(stream, remote_id, peer_addr) ==
    [kind |-> "Ok",
     channel |-> Some([stream |-> stream, remote_id |-> remote_id,
                       peer_addr |-> peer_addr])]
ChIoError == [kind |-> "Io", channel |-> None]
ChNotReturned == [kind |-> "none", channel |-> None]

\* A call made on the stream: its argument (a timeout or a number of
\* bytes), the bytes it moved, and whether it returned Ok.
StreamCall(call, arg, moved, ok) ==
    [call |-> call, arg |-> arg, moved |-> moved, ok |-> ok]

\* A slip: the remote id is taken from the info hash of the reply.
remote_id_of_info_hash(msg) == msg.info_hash

\* .map(|msg| PeerId::new(msg.peer_id))
remote_id_of(msg) == msg.peer_id

\* What a peer writes on the stream: a handshake, whole, cut short, or
\* followed by the first bytes of a message.
PeerWrites ==
    {[message |-> message, bytes |-> SubSeq(struct_bytes(message), 1, n) \o more] :
        message \in PeerHandshakes,
        n \in {20, size_of_HandshakeMessage - 1, size_of_HandshakeMessage},
        more \in {<<>>}}
    \cup {[message |-> message, bytes |-> struct_bytes(message) \o <<0, 0, 0, 1, 1>>] :
            message \in PeerHandshakes}

NothingWritten == [message |-> HandshakeMessage_default, bytes |-> <<>>]

\* The peer writes on the stream, at any moment before handshake returns.
channel_peer_writes ==
    /\ ch_pc \notin {"idle", "returned"}
    /\ ch_peer = NothingWritten
    /\ \E w \in PeerWrites :
         /\ ch_peer' = w
         /\ ch_stream' = [ch_stream EXCEPT !.unread = w.bytes]
    /\ UNCHANGED <<ch_args, ch_calls, ch_pc, ch_result>>
    /\ UNCHANGED <<dlVars, rcfVars, cmpVars, emVars, pmVars, hsVars, scVars,
                 ppVars, bdVars, tiVars, trVars, prVars, uiVars>>

\* handshake returns the error of a call marked with ?.
channel_fails(call) ==
    /\ ch_calls' = Append(ch_calls, call)
    /\ ch_pc' = "returned"
    /\ ch_result' = ChIoError

\* stream.set_read_timeout(Some(Self::HANDSHAKE_TIMEOUT))?
channel_set_handshake_timeout ==
    /\ ch_pc = "set_handshake_timeout"
    /\ \E io_ok \in BOOLEAN :
       \E call \in {StreamCall("set_read_timeout", HANDSHAKE_TIMEOUT, 0, io_ok)} :
         IF io_ok
         THEN /\ ch_stream' = [ch_stream EXCEPT !.read_timeout = Some(HANDSHAKE_TIMEOUT)]
              /\ ch_calls' = Append(ch_calls, call)
              /\ ch_pc' = "send"
              /\ UNCHANGED ch_result
         ELSE /\ channel_fails(call)
              /\ UNCHANGED ch_stream
    /\ UNCHANGED <<ch_args, ch_peer>>
    /\ UNCHANGED <<dlVars, rcfVars, cmpVars, emVars, pmVars, hsVars, scVars,
                 ppVars, bdVars, tiVars, trVars, prVars, uiVars>>

\* exchange_handshake: HandshakeMessage::new(info_hash, peer_id).send(stream)?
\* A write_all that fails has written some first bytes of the message.
channel_send ==
    /\ ch_pc = "send"
    /\ \E bytes \in {HandshakeMessage_send(
                        HandshakeMessage_new(ch_args.info_hash, ch_args.peer_id))} :
       \E io_ok \in BOOLEAN :
       \E n \in IF io_ok THEN {Len(bytes)} ELSE {0, 20} :
       \E call \in {StreamCall("write_all", Len(bytes), n, io_ok)} :
         /\ ch_stream' = [ch_stream EXCEPT !.written = @ \o SubSeq(bytes, 1, n)]
         /\ IF io_ok
            THEN /\ ch_calls' = Append(ch_calls, call)
                 /\ ch_pc' = "receive"
                 /\ UNCHANGED ch_result
            ELSE channel_fails(call)
    /\ UNCHANGED <<ch_args, ch_peer>>
    /\ UNCHANGED <<dlVars, rcfVars, cmpVars, emVars, pmVars, hsVars, scVars,
                 ppVars, bdVars, tiVars, trVars, prVars, uiVars>>

\* exchange_handshake: HandshakeMessage::receive(stream).map(...)?  The read
\* fails when the peer has not written the whole handshake by the time the
\* read timeout elapses, and on any other io error.
channel_receive ==
    /\ ch_pc = "receive"
    /\ \E io_ok \in BOOLEAN :
       \E r \in {IF io_ok THEN HandshakeMessage_receive(ch_stream.unread)
                 ELSE [result |-> HsIoError, rest |-> <<>>]} :
       \E call \in {StreamCall("read_exact", size_of_HandshakeMessage,
                               IF r.result.kind = "Ok"
                               THEN Len(ch_stream.unread) - Len(r.rest)
                               ELSE Len(ch_stream.unread),
                               r.result.kind = "Ok")} :
         /\ ch_stream' = [ch_stream EXCEPT !.unread = r.rest]
         /\ IF r.result.kind = "Ok"
            THEN /\ ch_calls' = Append(ch_calls, call)
                 /\ ch_pc' = "set_message_timeout"
                 /\ ch_result' = [ChNotReturned EXCEPT
                        !.channel = Some([stream |-> ch_stream',
                                          remote_id |-> remote_id_of(Unwrap(r.result.message)),
                                          peer_addr |-> ""])]
            ELSE channel_fails(call)
    /\ UNCHANGED <<ch_args, ch_peer>>
    /\ UNCHANGED <<dlVars, rcfVars, cmpVars, emVars, pmVars, hsVars, scVars,
                 ppVars, bdVars, tiVars, trVars, prVars, uiVars>>

\* stream.set_read_timeout(Some(Self::MESSAGE_READ_TIMEOUT))?
channel_set_message_timeout ==
    /\ ch_pc = "set_message_timeout"
    /\ \E io_ok \in BOOLEAN :
       \E call \in {StreamCall("set_read_timeout", MESSAGE_READ_TIMEOUT, 0, io_ok)} :
         IF io_ok
         THEN /\ ch_stream' = [ch_stream EXCEPT !.read_timeout = Some(MESSAGE_READ_TIMEOUT)]
              /\ ch_calls' = Append(ch_calls, call)
              /\ ch_pc' = "peer_addr"
              /\ UNCHANGED ch_result
         ELSE /\ channel_fails(call)
              /\ UNCHANGED ch_stream
    /\ UNCHANGED <<ch_args, ch_peer>>
    /\ UNCHANGED <<dlVars, rcfVars, cmpVars, emVars, pmVars, hsVars, scVars,
                 ppVars, bdVars, tiVars, trVars, prVars, uiVars>>

\* let peer_addr = stream.peer_addr()?; Ok(PeerChannel { .. })
channel_peer_addr ==
    /\ ch_pc = "peer_addr"
    /\ \E io_ok \in BOOLEAN :
       \E call \in {StreamCall("peer_addr", 0, 0, io_ok)} :
         IF io_ok
         THEN /\ ch_calls' = Append(ch_calls, call)
              /\ ch_pc' = "returned"
              /\ ch_result' = ChOk(ch_stream, Unwrap(ch_result.channel).remote_id, "peer")
         ELSE channel_fails(call)
    /\ UNCHANGED <<ch_args, ch_stream, ch_peer>>
    /\ UNCHANGED <<dlVars, rcfVars, cmpVars, emVars, pmVars, hsVars, scVars,
                 ppVars, bdVars, tiVars, trVars, prVars, uiVars>>

(***************************************************************************)
(* probe_peers_sequential.  The probe is a closure of the caller: what it  *)
(* returns for an address is an input, Ok(r) or Err(e).                    *)
(***************************************************************************)
ProbeOk(r) == [kind |-> "Ok", value |-> r]
ProbeErr(e) == [kind |-> "Err", value |-> e]
ProbeReturns == {ProbeOk(r) : r \in {"r1", "r2"}} \cup {ProbeErr("test error")}

\* A call of the probe: its arguments and what it returned.
ProbeCall(addr, index, returned) ==
    [addr |-> addr, index |-> index, returned |-> returned]

\* peer_addrs.iter().enumerate(): the item at a position, index from 0.
enumerate(peer_addrs, index) == [index |-> index, addr |-> peer_addrs[index + 1]]

\* A slip: a probe that fails ends the search.
probe_peers_step_stops(returned) ==
    IF returned.kind = "Ok" THEN Some(Some(returned.value)) ELSE Some(None)

\* if let Ok(result) = probe(addr, index) { return Some(result); }: what
\* the function returns after this probe, None when the loop goes on.
probe_peers_step(returned) ==
    IF returned.kind = "Ok" THEN Some(Some(returned.value)) ELSE None

\* One turn of the for loop.
probe_peers_probe ==
    /\ pr_pc = "loop"
    /\ pr_index < Len(pr_addrs)
    /\ \E returned \in ProbeReturns :
       \E item \in {enumerate(pr_addrs, pr_index)} :
       \E ret \in {probe_peers_step(returned)} :
         /\ pr_probes' = Append(pr_probes, ProbeCall(item.addr, item.index, returned))
         /\ IF IsSome(ret)
            THEN /\ pr_pc' = "returned"
                 /\ pr_result' = Unwrap(ret)
                 /\ UNCHANGED pr_index
            ELSE /\ pr_index' = pr_index + 1
                 /\ UNCHANGED <<pr_pc, pr_result>>
    /\ UNCHANGED pr_addrs
    /\ UNCHANGED <<dlVars, rcfVars, cmpVars, emVars, pmVars, hsVars, scVars,
                 ppVars, bdVars, tiVars, trVars, pcVars, uiVars>>

\* The iterator is at its end: None.
probe_peers_none ==
    /\ pr_pc = "loop"
    /\ pr_index >= Len(pr_addrs)
    /\ pr_pc' = "returned"
    /\ pr_result' = None
    /\ UNCHANGED <<pr_addrs, pr_index, pr_probes>>
    /\ UNCHANGED <<dlVars, rcfVars, cmpVars, emVars, pmVars, hsVars, scVars,
                 ppVars, bdVars, tiVars, trVars, pcVars, uiVars>>

(***************************************************************************)
(* ratatui_ui::App.  The event channel is an unbounded queue with one      *)
(* receiver, owned by the App, and a sender cloned into each background    *)
(* thread; a send appends to the queue in one step.  The tasks are the     *)
(* download task, a closure of the caller, and listen_for_keyboard_events. *)
(***************************************************************************)
\* AppEvent
AppEvent(kind, address, current, total, err) ==
    [kind |-> kind, address |-> address, current |-> current, total |-> total,
     err |-> err]
AppEvent_Exit == AppEvent("Exit", 0, 0, 0, "")
AppEvent_Resize == AppEvent("Resize", 0, 0, 0, "")
AppEvent_Completed == AppEvent("Completed", 0, 0, 0, "")
AppEvent_Error(err) == AppEvent("Error", 0, 0, 0, err)
AppEvent_Probing(address, current_index, total_count) ==
    AppEvent("Probing", address, current_index, total_count, "")
AppEvent_Downloading(current, total) == AppEvent("Downloading", 0, current, total, "")

\* DownloadState
DownloadState(kind, address, current, total) ==
    [kind |-> kind, address |-> address, current |-> current, total |-> total]
DownloadState_Idle == DownloadState("Idle", 0, 0, 0)

\* What run_ui_loop returned.
UiOk == [kind |-> "Ok", err |-> ""]
UiErr(err) == [kind |-> "Err", err |-> err]
UiNotReturned == [kind |-> "", err |-> ""]

Tasks == {"download", "keyboard"}

\* The errors the tasks return.
TaskError(task) == IF task = "download" THEN "download failed" ELSE "read failed"

\* What the download task sends, and what the terminal reports.
DownloadEvents ==
    {AppEvent_Probing(2, 1, 2), AppEvent_Downloading(1, 2),
     AppEvent_Downloading(2, 2), AppEvent_Completed}
TerminalEvents == {"Esc", "Key", "Resize"}

\* Sender::send from the thread of a task.
Sender_send(task, event) ==
    /\ ui_channel' = Append(ui_channel, [from |-> task, event |-> event])
    /\ ui_sent' = [ui_sent EXCEPT ![task] = Append(@, event)]

\* The closure of start_background_task, when the task has returned.
background_task_returns(task, ok) ==
    IF ok
    THEN /\ ui_threads' = [ui_threads EXCEPT ![task] = "returned"]
         /\ UNCHANGED <<ui_channel, ui_sent>>
    ELSE /\ ui_threads' = [ui_threads EXCEPT ![task] = "failed"]
         /\ Sender_send(task, AppEvent_Error(TaskError(task)))

\* The download task sends an event.
download_task_sends ==
    /\ ui_threads["download"] = "running"
    /\ Len(ui_sent["download"]) < MaxSends
    /\ \E event \in DownloadEvents : Sender_send("download", event)
    /\ UNCHANGED <<ui_threads, ui_handled, app_state, ui_displayed, ui_pc, ui_result>>
    /\ UNCHANGED <<dlVars, rcfVars, cmpVars, emVars, pmVars, hsVars, scVars,
                 ppVars, bdVars, tiVars, trVars, pcVars, prVars>>

\* The download task returns.
download_task_returns ==
    /\ ui_threads["download"] = "running"
    /\ \E ok \in BOOLEAN : background_task_returns("download", ok)
    /\ UNCHANGED <<ui_handled, app_state, ui_displayed, ui_pc, ui_result>>
    /\ UNCHANGED <<dlVars, rcfVars, cmpVars, emVars, pmVars, hsVars, scVars,
                 ppVars, bdVars, tiVars, trVars, pcVars, prVars>>

\* listen_for_keyboard_events: what one turn of the loop sends.
keyboard_event_sent(terminal_event) ==
    CASE terminal_event = "Esc" -> Some(AppEvent_Exit)
      [] terminal_event = "Resize" -> Some(AppEvent_Resize)
      [] OTHER -> None

\* One turn of the loop of listen_for_keyboard_events: event::read()
\* returns an event, or an error that ends the task.
keyboard_listener_reads ==
    /\ ui_threads["keyboard"] = "running"
    /\ \E read_ok \in BOOLEAN :
         IF read_ok
         THEN /\ Len(ui_sent["keyboard"]) < MaxSends
              /\ \E terminal_event \in TerminalEvents :
                 \E event \in {keyboard_event_sent(terminal_event)} :
                   IF IsSome(event)
                   THEN Sender_send("keyboard", Unwrap(event))
                   ELSE UNCHANGED <<ui_channel, ui_sent>>
              /\ UNCHANGED ui_threads
         ELSE background_task_returns("keyboard", FALSE)
    /\ UNCHANGED <<ui_handled, app_state, ui_displayed, ui_pc, ui_result>>
    /\ UNCHANGED <<dlVars, rcfVars, cmpVars, emVars, pmVars, hsVars, scVars,
                 ppVars, bdVars, tiVars, trVars, pcVars, prVars>>

\* run_ui_loop: self.start_background_task(listen_for_keyboard_events)
ui_starts_keyboard_listener ==
    /\ ui_pc = "start"
    /\ ui_threads' = [ui_threads EXCEPT !["keyboard"] = "running"]
    /\ ui_pc' = "draw"
    /\ UNCHANGED <<ui_sent, ui_channel, ui_handled, app_state, ui_displayed, ui_result>>
    /\ UNCHANGED <<dlVars, rcfVars, cmpVars, emVars, pmVars, hsVars, scVars,
                 ppVars, bdVars, tiVars, trVars, pcVars, prVars>>

\* terminal.draw(|frame| self.render_ui(frame))?
ui_draws ==
    /\ ui_pc = "draw"
    /\ \E draw_ok \in BOOLEAN :
         IF draw_ok
         THEN /\ ui_displayed' = app_state
              /\ ui_pc' = "recv"
              /\ UNCHANGED ui_result
         ELSE /\ ui_pc' = "returned"
              /\ ui_result' = UiErr("draw failed")
              /\ UNCHANGED ui_displayed
    /\ UNCHANGED <<ui_threads, ui_sent, ui_channel, ui_handled, app_state>>
    /\ UNCHANGED <<dlVars, rcfVars, cmpVars, emVars, pmVars, hsVars, scVars,
                 ppVars, bdVars, tiVars, trVars, pcVars, prVars>>

\* A slip: Completed does not end the loop.
process_app_event_completed_goes_on(state, event) ==
    CASE event.kind = "Probing" ->
            [app_state |-> DownloadState("Probing", event.address, event.current,
                                         event.total),
             returned |-> "Ok(true)"]
      [] event.kind = "Downloading" ->
            [app_state |-> DownloadState("Downloading", 0, event.current, event.total),
             returned |-> "Ok(true)"]
      [] event.kind = "Resize" -> [app_state |-> state, returned |-> "Ok(true)"]
      [] event.kind = "Completed" -> [app_state |-> state, returned |-> "Ok(true)"]
      [] event.kind = "Exit" -> [app_state |-> state, returned |-> "Ok(false)"]
      [] event.kind = "Error" -> [app_state |-> state, returned |-> "Err"]

\* process_app_event on the event received: the state after it and what it
\* returns.
process_app_event(state, event) ==
    CASE event.kind = "Probing" ->
            [app_state |-> DownloadState("Probing", event.address, event.current,
                                         event.total),
             returned |-> "Ok(true)"]
      [] event.kind = "Downloading" ->
            [app_state |-> DownloadState("Downloading", 0, event.current, event.total),
             returned |-> "Ok(true)"]
      [] event.kind = "Resize" -> [app_state |-> state, returned |-> "Ok(true)"]
      [] event.kind = "Completed" -> [app_state |-> state, returned |-> "Ok(false)"]
      [] event.kind = "Exit" -> [app_state |-> state, returned |-> "Ok(false)"]
      [] event.kind = "Error" -> [app_state |-> state, returned |-> "Err"]

\* if !self.process_app_event()? { break Ok(()); }, with an event in the
\* channel; recv blocks on an empty channel.
ui_processes_event ==
    /\ ui_pc = "recv"
    /\ ui_channel # <<>>
    /\ \E r \in {process_app_event(app_state, Head(ui_channel).event)} :
         /\ ui_channel' = Tail(ui_channel)
         /\ ui_handled' = Append(ui_handled, Head(ui_channel))
         /\ app_state' = r.app_state
         /\ CASE r.returned = "Ok(true)" -> ui_pc' = "draw" /\ UNCHANGED ui_result
              [] r.returned = "Ok(false)" -> ui_pc' = "returned" /\ ui_result' = UiOk
              [] r.returned = "Err" ->
                    /\ ui_pc' = "returned"
                    /\ ui_result' = UiErr(Head(ui_channel).event.err)
    /\ UNCHANGED <<ui_threads, ui_sent, ui_displayed>>
    /\ UNCHANGED <<dlVars, rcfVars, cmpVars, emVars, pmVars, hsVars, scVars,
                 ppVars, bdVars, tiVars, trVars, pcVars, prVars>>

(***************************************************************************)
(* Specifications: each part of the program runs on its own, the other     *)
(* parts idle.                                                             *)
(***************************************************************************)
\* request_complete_file is not running.
IdleRequestFile ==
    /\ rcf_piece_count = 0
    /\ rcf_pc = "returned"
    /\ rcf_result = RcfRunning
    /\ message_sequence = <<>>

\* No composer is in use on its own.
IdleComposer ==
    /\ cmp_file_info = [file_length |-> 1, piece_length |-> 1]
    /\ cmp_composer = PieceComposer_new
    /\ cmp_ret = unexpected_piece_index(0, 0)
    /\ cmp_run = BrokenRun
    /\ cmp_last = NoCall

\* No emitter is in use on its own.
IdleEmitter ==
    /\ em_file_info = [file_length |-> 1, piece_length |-> 1]
    /\ em_emitter = RequestEmitter_new(1)
    /\ em_sent = <<>>
    /\ em_last = NoRequestCall

\* No peer message is received or sent.
IdlePeerMessage ==
    /\ pm_src = <<>>
    /\ pm_frames = <<>>
    /\ pm_dst = <<>>
    /\ pm_last = [NoPeerMessageCall EXCEPT !.result = PmIoError]

\* The bytes of the handshakes on a stream.
RECURSIVE StreamOfHandshakes(_)
StreamOfHandshakes(unread) ==
    IF unread = <<>> THEN <<>>
    ELSE struct_bytes(Head(unread).message) \o StreamOfHandshakes(Tail(unread))

\* No handshake is sent or received.
IdleHandshake ==
    /\ hs_src = <<>>
    /\ hs_unread = <<>>
    /\ hs_dst = <<>>
    /\ hs_last = [NoHandshakeCall EXCEPT !.result = HsIoError]

\* No connector is in use.
IdleConnector ==
    /\ sc_addrs = <<>>
    /\ sc_index = 0
    /\ sc_pc = "done"
    /\ sc_connecting = None
    /\ sc_attempts = <<>>
    /\ sc_outcomes = <<>>
    /\ sc_progress = <<>>
    /\ sc_yielded = <<>>

\* No metainfo is read.
IdleTorrent ==
    /\ ti_internal = NoInfoInternal
    /\ ti_pc = ""
    /\ ti_result = InfoNotCalled

\* No App is running.
IdleUi ==
    /\ ui_threads = [task \in Tasks |-> ""]
    /\ ui_sent = [task \in Tasks |-> <<>>]
    /\ ui_channel = <<>>
    /\ ui_handled = <<>>
    /\ app_state = DownloadState_Idle
    /\ ui_displayed = DownloadState_Idle
    /\ ui_pc = ""
    /\ ui_result = UiNotReturned

\* probe_peers_sequential is not running.
IdleProbePeers ==
    /\ pr_addrs = <<>>
    /\ pr_index = 0
    /\ pr_probes = <<>>
    /\ pr_pc = ""
    /\ pr_result = None

\* PeerChannel::handshake is not running.
IdlePeerChannel ==
    /\ ch_args = [info_hash |-> <<>>, peer_id |-> <<>>]
    /\ ch_stream = [read_timeout |-> None, written |-> <<>>, unread |-> <<>>]
    /\ ch_peer = NothingWritten
    /\ ch_calls = <<>>
    /\ ch_pc = "idle"
    /\ ch_result = ChNotReturned

\* No tracker response is at hand.
IdleTracker ==
    /\ tr_origin = [kind |-> "", entries |-> <<>>, cut |-> 0]
    /\ tr_response = <<>>
    /\ tr_pc = ""
    /\ tr_result = PeersNotCalled

\* No decoder is in use.
IdleDecoder ==
    /\ bd_raw_data = <<>>
    /\ bd_origin = Origin("", <<>>, NoValue, 0, <<>>, <<>>)
    /\ bd_called = ""
    /\ bd_result = NotDecoded

\* ParPeerConnector::connect is not running.
IdleParConnector ==
    /\ pp_addrs = <<>>
    /\ poller = PeerPoller_new(<<>>)
    /\ pp_sockets = Sockets_new(<<>>)
    /\ pp_pc = "idle"
    /\ pp_ret = NotCalled
    /\ pp_yielded = <<>>
    /\ pp_progress = <<>>
    /\ pp_seen = NothingSeen

\* FileDownloader is not running.
IdleDownload ==
    /\ file_info = [file_length |-> 1, piece_length |-> 1]
    /\ file_data = <<1>>
    /\ piece_hashes = <<>>
    /\ request_emitter = RequestEmitter_new(1)
    /\ piece_composer = PieceComposer_new
    /\ buffer = <<>>
    /\ downloaded_pieces_count = 0
    /\ piece = None
    /\ progress = <<>>
    /\ pc = "returned"
    /\ result = NotReturned
    /\ pending = <<>>
    /\ sent = <<>>
    /\ peer_honest = TRUE
    /\ blocks_received = 0

\* FileDownloader::new, for a torrent of any size within the bounds.
InitDownload ==
    /\ \E fl \in 1..MaxFileLength, pl \in 1..MaxPieceLength :
         file_info = [file_length |-> fl, piece_length |-> pl]
    /\ file_data \in FileContents(file_info.file_length)
    /\ piece_hashes = hashes_of(file_data, file_info)
    /\ \E bl \in 1..MaxBlockLength, ql \in 1..MaxQueueLength :
         request_emitter = with_queue_length(RequestEmitter_new(bl), ql)
    /\ piece_composer = PieceComposer_new
    /\ buffer = <<>>
    /\ downloaded_pieces_count = 0
    /\ piece = None
    /\ progress = <<>>
    /\ pc = "new"
    /\ result = NotReturned
    /\ pending = <<>>
    /\ sent = <<>>
    /\ peer_honest = TRUE
    /\ blocks_received = 0
    /\ IdleRequestFile /\ IdleComposer /\ IdleEmitter
    /\ IdlePeerMessage /\ IdleHandshake /\ IdleConnector
    /\ IdleParConnector
    /\ IdleDecoder
    /\ IdleTorrent
    /\ IdleTracker
    /\ IdlePeerChannel
    /\ IdleProbePeers
    /\ IdleUi

NextDownload == download_start \/ download_loop

\* FileDownloader::download on its own.
Spec == InitDownload /\ [][NextDownload]_vars

\* download() with a peer that answers every request in issuance order with
\* the requested bytes, on a channel that does not fail.
honest_download_start == download_start /\ peer_honest'
honest_download_loop == download_loop /\ peer_honest'
NextHonestDownload == honest_download_start \/ honest_download_loop

\* The same, where download() goes on as long as it can take a step.
SpecHonestFair ==
    /\ InitDownload
    /\ [][NextHonestDownload]_vars
    /\ WF_vars(NextHonestDownload)

\* request_complete_file is called with any piece count.
InitRequestFile ==
    /\ rcf_piece_count \in 0..MaxPieceCount
    /\ rcf_pc = "receive_bitfield"
    /\ rcf_result = RcfRunning
    /\ message_sequence = <<>>
    /\ IdleDownload /\ IdleComposer /\ IdleEmitter
    /\ IdlePeerMessage /\ IdleHandshake /\ IdleConnector
    /\ IdleParConnector
    /\ IdleDecoder
    /\ IdleTorrent
    /\ IdleTracker
    /\ IdlePeerChannel
    /\ IdleProbePeers
    /\ IdleUi

NextRequestFile == receive_bitfield \/ send_interested \/ receive_unchoke

\* request_complete_file on its own.
SpecRequestFile == InitRequestFile /\ [][NextRequestFile]_vars

\* PieceComposer::new, for a file of any size within the bounds.
InitComposer ==
    /\ \E fl \in 1..MaxFileLength, pl \in 1..MaxPieceLength :
         cmp_file_info = [file_length |-> fl, piece_length |-> pl]
    /\ cmp_composer = PieceComposer_new
    /\ cmp_ret = [kind |-> "NotCalled", piece |-> None, expected |-> 0, actual |-> 0]
    /\ cmp_run = EmptyRun
    /\ cmp_last = NoCall
    /\ IdleDownload /\ IdleRequestFile /\ IdleEmitter
    /\ IdlePeerMessage /\ IdleHandshake /\ IdleConnector
    /\ IdleParConnector
    /\ IdleDecoder
    /\ IdleTorrent
    /\ IdleTracker
    /\ IdlePeerChannel
    /\ IdleProbePeers
    /\ IdleUi

NextComposer == composer_append_block

\* A PieceComposer on its own.
SpecComposer == InitComposer /\ [][NextComposer]_vars

\* RequestEmitter::new, for a file and a block length within the bounds.
InitEmitter ==
    /\ \E fl \in 1..MaxFileLength, pl \in 1..MaxPieceLength :
         em_file_info = [file_length |-> fl, piece_length |-> pl]
    /\ \E bl \in 1..MaxBlockLength : em_emitter = RequestEmitter_new(bl)
    /\ em_sent = <<>>
    /\ em_last = NoRequestCall
    /\ IdleDownload /\ IdleRequestFile /\ IdleComposer
    /\ IdlePeerMessage /\ IdleHandshake /\ IdleConnector
    /\ IdleParConnector
    /\ IdleDecoder
    /\ IdleTorrent
    /\ IdleTracker
    /\ IdlePeerChannel
    /\ IdleProbePeers
    /\ IdleUi

NextEmitter == emitter_request_next_block

\* A RequestEmitter on its own.
SpecEmitter == InitEmitter /\ [][NextEmitter]_vars

\* A stream with nothing on it yet.
InitPeerMessage ==
    /\ pm_src = <<>>
    /\ pm_frames = <<>>
    /\ pm_dst = <<>>
    /\ pm_last = NoPeerMessageCall
    /\ IdleDownload /\ IdleRequestFile /\ IdleComposer
    /\ IdleEmitter /\ IdleHandshake /\ IdleConnector
    /\ IdleParConnector
    /\ IdleDecoder
    /\ IdleTorrent
    /\ IdleTracker
    /\ IdlePeerChannel
    /\ IdleProbePeers
    /\ IdleUi

NextPeerMessage == peer_writes \/ peer_message_send \/ peer_message_receive

\* PeerMessage::receive and PeerMessage::send on their own.
SpecPeerMessage == InitPeerMessage /\ [][NextPeerMessage]_vars

\* A stream with nothing on it yet.
InitHandshake ==
    /\ hs_src = <<>>
    /\ hs_unread = <<>>
    /\ hs_dst = <<>>
    /\ hs_last = NoHandshakeCall
    /\ IdleDownload /\ IdleRequestFile /\ IdleComposer /\ IdleEmitter
    /\ IdlePeerMessage /\ IdleConnector
    /\ IdleParConnector
    /\ IdleDecoder
    /\ IdleTorrent
    /\ IdleTracker
    /\ IdlePeerChannel
    /\ IdleProbePeers
    /\ IdleUi

NextHandshake == peer_writes_handshake \/ handshake_send \/ handshake_receive

\* HandshakeMessage::send and HandshakeMessage::receive on their own.
SpecHandshake == InitHandshake /\ [][NextHandshake]_vars

\* The addresses: any sequence, repeats included.
Addrs == 1..MaxAddrs

\* SeqPeerConnector::connect(addrs): nothing is attempted yet.
InitConnector ==
    /\ sc_addrs \in SeqsOf(Addrs, 0, MaxAddrs)
    /\ sc_index = 0
    /\ sc_pc = "idle"
    /\ sc_connecting = None
    /\ sc_attempts = <<>>
    /\ sc_outcomes = <<>>
    /\ sc_progress = <<>>
    /\ sc_yielded = <<>>
    /\ IdleDownload /\ IdleRequestFile /\ IdleComposer /\ IdleEmitter
    /\ IdlePeerMessage /\ IdleHandshake
    /\ IdleParConnector
    /\ IdleDecoder
    /\ IdleTorrent
    /\ IdleTracker
    /\ IdlePeerChannel
    /\ IdleProbePeers
    /\ IdleUi

NextConnector == consumer_next \/ try_connect_begin \/ try_connect_end \/ iterator_ends

\* SeqPeerConnector on its own.
SpecConnector == InitConnector /\ [][NextConnector]_vars

\* The addresses probed: all different, or one address repeated.
ProbedAddrs ==
    UNION {{[i \in 1..n |-> i], [i \in 1..n |-> 1]} : n \in 0..MaxAddrs}

\* ParPeerConnector::connect(addrs): every probe is connecting.
InitParConnector ==
    /\ pp_addrs \in ProbedAddrs
    /\ poller = PeerPoller_new(pp_addrs)
    /\ pp_sockets = Sockets_new(pp_addrs)
    /\ pp_pc = "idle"
    /\ pp_ret = NotCalled
    /\ pp_yielded = <<>>
    /\ pp_progress = <<>>
    /\ pp_seen = NothingSeen
    /\ IdleDownload /\ IdleRequestFile /\ IdleComposer /\ IdleEmitter
    /\ IdlePeerMessage /\ IdleHandshake /\ IdleConnector
    /\ IdleDecoder
    /\ IdleTorrent
    /\ IdleTracker
    /\ IdlePeerChannel
    /\ IdleProbePeers
    /\ IdleUi

NextParConnector == socket_changes \/ poller_next \/ get_connected_stream \/ poll_returns

\* ParPeerConnector on its own.
SpecParConnector == InitParConnector /\ [][NextParConnector]_vars

\* The same, where a call of next() that can take a step takes it: the poll
\* has a timeout and nothing else in the loop waits.
SpecParConnectorFair ==
    /\ SpecParConnector
    /\ WF_vars(get_connected_stream)
    /\ WF_vars(poll_returns)

\* Well-formed bencoded values: the source text, and next to it the value
\* it denotes, where the SHA-1 of every dict is the digest of the text of
\* that dict, 'd' to 'e'.
GenInt(n) ==
    [text |-> <<INT_START_DELIMITER>> \o to_string(n) \o <<TRAILING_DELIMITER>>,
     value |-> BencInt(n)]
GenString(s) == [text |-> EncodeString(s), value |-> BencByteString(s)]
GenList(items) ==
    [text |-> <<LIST_START_DELIMITER>>
                 \o Concat([i \in 1..Len(items) |-> items[i].text])
                 \o <<TRAILING_DELIMITER>>,
     value |-> BencList([i \in 1..Len(items) |-> items[i].value])]

\* The map of the entries of a dict; of two entries with one key the later
\* stays.
RECURSIVE GenMap(_)
GenMap(entries) ==
    IF entries = <<>> THEN HashMap_new
    ELSE LET last == entries[Len(entries)]
         IN  HashMap_insert(GenMap(SubSeq(entries, 1, Len(entries) - 1)),
                            last.key, last.item.value)

GenDictText(entries) ==
    <<DICT_START_DELIMITER>>
       \o Concat([i \in 1..Len(entries) |->
                    EncodeString(entries[i].key) \o entries[i].item.text])
       \o <<TRAILING_DELIMITER>>
GenDict(entries) ==
    [text |-> GenDictText(entries),
     value |-> BencDict(Dict_new(Sha1_calculate(GenDictText(entries)), GenMap(entries)))]

GenAtoms ==
    {GenInt(0), GenInt(0 - 12), GenString(<<>>), GenString(<<101>>), GenString(<<255>>)}
GenKeys == {<<97>>, <<101>>}
GenPairItems == {GenInt(0), GenString(<<101>>), GenDict(<<>>)}

\* The values that wrap the values of inner once more.
GenWrapped(inner) ==
    inner
    \cup {GenList(<<>>), GenDict(<<>>)}
    \cup {GenList(<<x>>) : x \in inner}
    \cup {GenDict(<<[key |-> k, item |-> x]>>) : k \in GenKeys, x \in inner}
    \cup {GenList(<<x, y>>) : x \in GenPairItems, y \in GenPairItems}
    \cup {GenDict(<<[key |-> k1, item |-> x], [key |-> k2, item |-> y]>>) :
             k1 \in GenKeys, k2 \in GenKeys, x \in GenPairItems, y \in GenPairItems}

\* The values nested at most depth deep (depth by depth, each level made
\* once).
GenLevel1 == GenWrapped(GenAtoms)
GenLevel2 == GenWrapped(GenLevel1)
GenLevel3 == GenWrapped(GenLevel2)
GenLevel4 == GenWrapped(GenLevel3)
GenValues(depth) ==
    IF depth = 0 THEN GenAtoms
    ELSE IF depth = 1 THEN GenLevel1
    ELSE IF depth = 2 THEN GenLevel2
    ELSE IF depth = 3 THEN GenLevel3
    ELSE GenLevel4

\* A well-formed value, whole.
ValueCases ==
    {Origin("value", g.text, g.value, Len(g.text), <<>>, <<>>) : g \in GenValues(MaxDepth)}

\* A well-formed value cut short after cut bytes.
Prefixes ==
    {SubSeq(g.text, 1, Min(cut, Len(g.text) - 1)) :
        g \in GenValues(MaxDepth), cut \in 0..(5 * MaxDepth + 14)}
PrefixCases == {Origin("prefix", text, NoValue, Len(text), <<>>, <<>>) : text \in Prefixes}

\* A byte string s under its length, with bytes after it.
StringBytes == {97, 101, 58, 49, 255}
TrailingBytes == {101, 49, 58}
StringCases ==
    {Origin("string", <<>>, NoValue, 0, s, trailing) :
        s \in SeqsOf(StringBytes, 0, MaxStringLength)
                 \cup {[i \in 1..n |-> 97] : n \in 9..11},
        trailing \in SeqsOf(TrailingBytes, 0, 2)}

\* Any bytes.
DecoderBytes == {100, 101, 105, 58, 48, 49, 45, 43, 97, 255}
AnyCases ==
    {Origin("any", text, NoValue, 0, <<>>, <<>>) : text \in SeqsOf(DecoderBytes, 0, MaxInputLength)}

CasesOf(kind) ==
    IF kind = "value" THEN ValueCases
    ELSE IF kind = "prefix" THEN PrefixCases
    ELSE IF kind = "string" THEN StringCases
    ELSE AnyCases

InputOf(origin) ==
    IF origin.kind \in {"value", "prefix"} THEN SubSeq(origin.text, 1, origin.cut)
    ELSE IF origin.kind = "string" THEN EncodeString(origin.s) \o origin.trailing
    ELSE origin.text

\* Decoder::new(data), for one of the inputs.
decoder_new ==
    /\ bd_called = ""
    /\ \E kind \in {"value", "prefix", "string", "any"} : bd_origin' \in CasesOf(kind)
    /\ bd_raw_data' = InputOf(bd_origin')
    /\ bd_called' = "new"
    /\ UNCHANGED bd_result
    /\ UNCHANGED <<dlVars, rcfVars, cmpVars, emVars, pmVars, hsVars, scVars,
                 ppVars, tiVars, trVars, pcVars, prVars, uiVars>>

\* No decoder is made yet.
InitDecoder ==
    /\ bd_raw_data = <<>>
    /\ bd_origin = Origin("", <<>>, NoValue, 0, <<>>, <<>>)
    /\ bd_called = ""
    /\ bd_result = NotDecoded
    /\ IdleDownload /\ IdleRequestFile /\ IdleComposer /\ IdleEmitter
    /\ IdlePeerMessage /\ IdleHandshake /\ IdleConnector /\ IdleParConnector
    /\ IdleTorrent
    /\ IdleTracker
    /\ IdlePeerChannel
    /\ IdleProbePeers
    /\ IdleUi

NextDecoder == decoder_new \/ decoder_decode \/ decoder_decode_dict

\* bencoding::Decoder on its own.
SpecDecoder == InitDecoder /\ [][NextDecoder]_vars

InitTorrent ==
    /\ IdleTorrent
    /\ IdleDownload /\ IdleRequestFile /\ IdleComposer /\ IdleEmitter
    /\ IdlePeerMessage /\ IdleHandshake /\ IdleConnector /\ IdleParConnector
    /\ IdleDecoder
    /\ IdleTracker
    /\ IdlePeerChannel
    /\ IdleProbePeers
    /\ IdleUi

NextTorrent == metainfo_given \/ info_deserialize

\* torrent::Info on its own.
SpecTorrent == InitTorrent /\ [][NextTorrent]_vars

\* What a tracker answers.  An entry of the peers list: a dict with ip and
\* port, or with one of them missing or of the wrong type, or no dict.
PeerEntry(shape, ip, port) == [shape |-> shape, ip |-> ip, port |-> port]
PeerEntries ==
    {PeerEntry("peer", ip, port) : ip \in {<<97>>, <<98>>, <<120>>}, port \in {1, 65535}}
    \cup {PeerEntry(shape, <<97>>, 1) :
             shape \in {"no_ip", "no_port", "ip_is_int", "port_is_string", "no_dict"}}

\* The bencoded text of an entry.
PeerEntryText(entry) ==
    LET ip   == EncodeString(<<105, 112>>) \o EncodeString(entry.ip)
        port == EncodeString(<<112, 111, 114, 116>>) \o GenInt(entry.port).text
    IN  IF entry.shape = "no_dict" THEN GenInt(0).text
        ELSE <<DICT_START_DELIMITER>>
                \o (IF entry.shape = "no_ip" THEN <<>>
                    ELSE IF entry.shape = "ip_is_int"
                    THEN EncodeString(<<105, 112>>) \o GenInt(1).text
                    ELSE ip)
                \o (IF entry.shape = "no_port" THEN <<>>
                    ELSE IF entry.shape = "port_is_string"
                    THEN EncodeString(<<112, 111, 114, 116>>) \o EncodeString(<<49>>)
                    ELSE port)
                \o <<TRAILING_DELIMITER>>

\* The body: a dict with "interval" and the list "peers"; a dict with
\* "failure reason"; a dict whose "peers" is no list; or the first cut
\* bytes of a body with no peers, which is not bencoded.
TrackerResponse(kind, entries, cut) == [kind |-> kind, entries |-> entries, cut |-> cut]
PeersBody(entries) ==
    <<DICT_START_DELIMITER>>
       \o EncodeString(<<105, 110, 116, 101, 114, 118, 97, 108>>) \o GenInt(900).text
       \o EncodeString(<<112, 101, 101, 114, 115>>)
       \o <<LIST_START_DELIMITER>>
       \o Concat([i \in 1..Len(entries) |-> PeerEntryText(entries[i])])
       \o <<TRAILING_DELIMITER, TRAILING_DELIMITER>>
FailureBody ==
    <<DICT_START_DELIMITER>>
       \o EncodeString(<<102, 97, 105, 108, 117, 114, 101, 32, 114, 101, 97, 115, 111, 110>>)
       \o EncodeString(<<97>>)
       \o <<TRAILING_DELIMITER>>
PeersIsIntBody ==
    <<DICT_START_DELIMITER>>
       \o EncodeString(<<112, 101, 101, 114, 115>>) \o GenInt(0).text
       \o <<TRAILING_DELIMITER>>
TrackerResponses ==
    {TrackerResponse("peers", entries, 0) : entries \in SeqsOf(PeerEntries, 0, MaxPeers)}
    \cup {TrackerResponse("failure", <<>>, 0), TrackerResponse("peers_is_int", <<>>, 0)}
    \cup {TrackerResponse("not_bencoded", <<>>, cut) : cut \in 0..(Len(PeersBody(<<>>)) - 1)}
BodyOf(response) ==
    IF response.kind = "peers" THEN PeersBody(response.entries)
    ELSE IF response.kind = "failure" THEN FailureBody
    ELSE IF response.kind = "peers_is_int" THEN PeersIsIntBody
    ELSE SubSeq(PeersBody(<<>>), 1, response.cut)

\* make_announce_request returned the body of a response.
tracker_responds ==
    /\ tr_pc = ""
    /\ tr_origin' \in TrackerResponses
    /\ tr_response' = BodyOf(tr_origin')
    /\ tr_pc' = "received"
    /\ UNCHANGED tr_result
    /\ UNCHANGED <<dlVars, rcfVars, cmpVars, emVars, pmVars, hsVars, scVars,
                 ppVars, bdVars, tiVars, pcVars, prVars, uiVars>>

InitTracker ==
    /\ IdleTracker
    /\ IdleDownload /\ IdleRequestFile /\ IdleComposer /\ IdleEmitter
    /\ IdlePeerMessage /\ IdleHandshake /\ IdleConnector /\ IdleParConnector
    /\ IdleDecoder /\ IdleTorrent
    /\ IdlePeerChannel
    /\ IdleProbePeers
    /\ IdleUi

NextTracker == tracker_responds \/ tracker_get_peer_list

\* The tracker's response on its own.
SpecTracker == InitTracker /\ [][NextTracker]_vars

\* handshake(stream, info_hash, peer_id) is called on a stream just connected,
\* with no read timeout set.
InitPeerChannel ==
    /\ ch_args \in [info_hash : InfoHashes, peer_id : PeerIds]
    /\ ch_stream = [read_timeout |-> None, written |-> <<>>, unread |-> <<>>]
    /\ ch_peer = NothingWritten
    /\ ch_calls = <<>>
    /\ ch_pc = "set_handshake_timeout"
    /\ ch_result = ChNotReturned
    /\ IdleDownload /\ IdleRequestFile /\ IdleComposer /\ IdleEmitter
    /\ IdlePeerMessage /\ IdleHandshake /\ IdleConnector /\ IdleParConnector
    /\ IdleDecoder /\ IdleTorrent /\ IdleTracker
    /\ IdleProbePeers
    /\ IdleUi

NextPeerChannel ==
    \/ channel_peer_writes
    \/ channel_set_handshake_timeout
    \/ channel_send
    \/ channel_receive
    \/ channel_set_message_timeout
    \/ channel_peer_addr

\* One call of PeerChannel::handshake on its own.
SpecPeerChannel == InitPeerChannel /\ [][NextPeerChannel]_vars

\* probe_peers_sequential(peer_addrs, probe) is called.
InitProbePeers ==
    /\ pr_addrs \in SeqsOf({1, 2, 3}, 0, MaxAddrs)
    /\ pr_index = 0
    /\ pr_probes = <<>>
    /\ pr_pc = "loop"
    /\ pr_result = None
    /\ IdleDownload /\ IdleRequestFile /\ IdleComposer /\ IdleEmitter
    /\ IdlePeerMessage /\ IdleHandshake /\ IdleConnector /\ IdleParConnector
    /\ IdleDecoder /\ IdleTorrent /\ IdleTracker /\ IdlePeerChannel
    /\ IdleUi

NextProbePeers == probe_peers_probe \/ probe_peers_none

\* One call of probe_peers_sequential on its own.
SpecProbePeers == InitProbePeers /\ [][NextProbePeers]_vars

\* App::new(), start_background_task(download task), run_ui_loop().
InitUi ==
    /\ ui_threads = [task \in Tasks |-> IF task = "download" THEN "running" ELSE ""]
    /\ ui_sent = [task \in Tasks |-> <<>>]
    /\ ui_channel = <<>>
    /\ ui_handled = <<>>
    /\ app_state = DownloadState_Idle
    /\ ui_displayed = DownloadState_Idle
    /\ ui_pc = "start"
    /\ ui_result = UiNotReturned
    /\ IdleDownload /\ IdleRequestFile /\ IdleComposer /\ IdleEmitter
    /\ IdlePeerMessage /\ IdleHandshake /\ IdleConnector /\ IdleParConnector
    /\ IdleDecoder /\ IdleTorrent /\ IdleTracker /\ IdlePeerChannel
    /\ IdleProbePeers

NextUi ==
    \/ download_task_sends
    \/ download_task_returns
    \/ keyboard_listener_reads
    \/ ui_starts_keyboard_listener
    \/ ui_draws
    \/ ui_processes_event

\* The UI loop and its two background tasks.
SpecUi == InitUi /\ [][NextUi]_vars

(***************************************************************************)
(* Properties of FileDownloader::download (specification Spec).            *)
(***************************************************************************)
\* The bytes of the piece slot piece_index of a buffer.
PieceSlot(buf, fi, piece_index) ==
    Slice(buf, piece_bounds(fi, piece_index)[1], piece_bounds(fi, piece_index)[2])

\* C1: whatever the peer sends, a buffer returned by download() has length
\* file_length and every piece slot of it holds data whose SHA-1 is the
\* expected digest of that piece; no slot is left unfilled.
C1_ReturnedBufferIsVerified ==
    result.kind = "Ok" =>
        /\ Len(result.buffer) = file_info.file_length
        /\ \A i \in 0..(piece_count(file_info) - 1) :
               Sha1Calculate(PieceSlot(result.buffer, file_info, i)) = piece_hashes[i + 1]

\* C2: against a peer that answers every request, in issuance order, with
\* exactly the requested bytes, download() fails with no error, and the
\* buffer it returns is the file.
C2_HonestDownloadIsExact ==
    peer_honest =>
        /\ result.kind \in {"Running", "Ok"}
        /\ result.kind = "Ok" => result.buffer = file_data

\* A download from a well-behaved peer has returned the file; its last piece
\* is shorter than the others and the block length does not divide the piece
\* length.
C2_Witness ==
    /\ peer_honest
    /\ result.kind = "Ok"
    /\ piece_count(file_info) > 1
    /\ file_info.file_length % file_info.piece_length # 0
    /\ file_info.piece_length % request_emitter.block_length # 0

\* C3: a turn of the loop in which the composer returns a piece whose SHA-1
\* is not the expected digest ends download() with PieceHashMismatch: no
\* buffer is returned, the piece is neither copied into the output buffer
\* nor counted nor reported as progress.
C3_HashMismatchIsFatal ==
    [][(/\ pc = "loop"
        /\ piece' # None
        /\ Unwrap(piece').index < piece_count(file_info)
        /\ Sha1Calculate(Unwrap(piece').data) # piece_hashes[Unwrap(piece').index + 1])
       => (/\ pc' = "returned"
           /\ result' = PieceHashMismatch
           /\ result'.buffer = <<>>
           /\ buffer' = buffer
           /\ downloaded_pieces_count' = downloaded_pieces_count
           /\ progress' = progress)]_vars

\* download() has ended on a hash mismatch after it had accepted a piece.
C3_Witness ==
    /\ result.kind = "PieceHashMismatch"
    /\ pc = "returned"
    /\ piece # None
    /\ downloaded_pieces_count >= 1
    /\ Sha1Calculate(Unwrap(piece).data) # piece_hashes[Unwrap(piece).index + 1]

\* C4: progress is reported exactly once per completed piece, in piece order,
\* with (downloaded_bytes, total) where downloaded_bytes strictly increases,
\* total is the file length, and the last report of a download that returns
\* a buffer is (file_length, file_length).
C4_ProgressOncePerPieceInOrder ==
    /\ Len(progress) = downloaded_pieces_count
    /\ \A k \in 1..Len(progress) :
           /\ progress[k].piece = k - 1
           /\ progress[k].total = file_info.file_length
           /\ k > 1 => progress[k].downloaded > progress[k - 1].downloaded
    /\ result.kind = "Ok" =>
           /\ progress # <<>>
           /\ progress[Len(progress)].downloaded = file_info.file_length

(***************************************************************************)
(* Properties of request_complete_file (specification SpecRequestFile).    *)
(***************************************************************************)
\* The first message received.
FirstMessage == message_sequence[1][2]

\* Bit i of a bitfield, the most significant bit of a byte first.
PieceBit(bitfield, i) == (bitfield[(i \div 8) + 1] \div 2 ^ (7 - (i % 8))) % 2

\* The bitfield has the bit of every piece.
HasAllPieces(bitfield, n_pieces) ==
    \A i \in 0..(n_pieces - 1) : PieceBit(bitfield, i) = 1

\* A Bitfield of the right size with every piece bit set.
CompleteBitfield(message, n_pieces) ==
    /\ message.kind = "Bitfield"
    /\ Len(message.bytes) = DivCeil(n_pieces, 8)
    /\ HasAllPieces(message.bytes, n_pieces)

\* C5: the traffic of request_complete_file is a beginning of: receive,
\* send Interested, receive.  Interested is sent only after a Bitfield of the
\* right size with every piece bit set, and is what follows such a bitfield
\* (for at least one piece).  Ok is returned only after an Unchoke received
\* second.  When the bitfield step fails the function has returned an error
\* with nothing sent and nothing more received.
C5_ReceiveSendReceive ==
    /\ Len(message_sequence) <= 3
    /\ Len(message_sequence) >= 1 => message_sequence[1][1] = "recv"
    /\ Len(message_sequence) >= 2 =>
          /\ message_sequence[2] = <<"send", Interested>>
          /\ CompleteBitfield(FirstMessage, rcf_piece_count)
    /\ Len(message_sequence) >= 3 => message_sequence[3][1] = "recv"
    /\ (/\ Len(message_sequence) = 1
        /\ rcf_piece_count >= 1
        /\ CompleteBitfield(FirstMessage, rcf_piece_count)) =>
          (rcf_pc = "send_interested" \/ rcf_result = Other)
    /\ rcf_result = RcfOk =>
          /\ rcf_pc = "returned"
          /\ Len(message_sequence) = 3
          /\ message_sequence[3] = <<"recv", Unchoke>>
    /\ (/\ Len(message_sequence) >= 1
        /\ ~CompleteBitfield(FirstMessage, rcf_piece_count)) =>
          /\ Len(message_sequence) = 1
          /\ rcf_pc = "returned"
          /\ rcf_result.kind \notin {"Running", "Ok"}

\* The whole exchange went through and Ok was returned.
C5_Witness ==
    /\ rcf_result = RcfOk
    /\ Len(message_sequence) = 3
    /\ rcf_piece_count = 8
    /\ FirstMessage = Bitfield(<<255>>)

\* The number of piece bits in the last byte of the bitfield.
PiecesInLastByte(n_pieces) == IF n_pieces % 8 = 0 THEN 8 ELSE n_pieces % 8

\* C6: for at least one piece and a bitfield of the right size, the
\* completeness check succeeds exactly when the bit of every piece (most
\* significant bit first) is set, whatever the spare low bits of the last
\* byte; with a bit missing the result is IncompleteFile.  The mask of the
\* last byte has its top N bits set and no other, N the number of pieces in
\* the last byte.
C6_CompleteIffEveryPieceBit ==
    (/\ rcf_piece_count >= 1
     /\ Len(message_sequence) >= 1
     /\ FirstMessage.kind = "Bitfield"
     /\ Len(FirstMessage.bytes) = DivCeil(rcf_piece_count, 8)) =>
       /\ \A k \in 0..7 :
             ((last_byte_mask(rcf_piece_count) \div 2 ^ (7 - k)) % 2 = 1)
                <=> (k < PiecesInLastByte(rcf_piece_count))
       /\ last_byte_mask(rcf_piece_count) \in 0..255
       /\ IF HasAllPieces(FirstMessage.bytes, rcf_piece_count)
          THEN /\ rcf_result.kind \notin {"IncompleteFile", "BitfieldSizeMismatch", "Panic"}
               /\ Len(message_sequence) = 1 =>
                     (rcf_pc = "send_interested" \/ rcf_result = Other)
          ELSE /\ rcf_result = IncompleteFile
               /\ rcf_pc = "returned"

\* Ten pieces, the spare bits of the last byte partly set: accepted.
C6_Witness ==
    /\ rcf_piece_count = 10
    /\ Len(message_sequence) = 1
    /\ FirstMessage = Bitfield(<<255, 200>>)
    /\ rcf_pc = "send_interested"

\* The bitfield [0xFF, 0b11111100].
BitfieldFFFC == Bitfield(<<255, 252>>)

\* C7, as stated: with 15 pieces the bitfield [0xFF, 0b11111100] passes the
\* bitfield step, and followed by Unchoke the call succeeds.
C7_FifteenPiecesSucceeds ==
    (/\ rcf_piece_count = 15
     /\ Len(message_sequence) >= 1
     /\ FirstMessage = BitfieldFFFC) =>
       /\ rcf_result.kind # "IncompleteFile"
       /\ (/\ rcf_pc = "returned"
           /\ Len(message_sequence) = 3
           /\ message_sequence[3] = <<"recv", Unchoke>>) => rcf_result = RcfOk

\* C7, amended: with 15 pieces the bitfield [0xFF, 0b11111100] lacks the bit
\* of the last piece (piece 14): the call fails with IncompleteFile and
\* Interested is not sent.
C7_FifteenPiecesLastMissing ==
    (/\ rcf_piece_count = 15
     /\ Len(message_sequence) >= 1
     /\ FirstMessage = BitfieldFFFC) =>
       /\ rcf_result = IncompleteFile
       /\ rcf_pc = "returned"
       /\ message_sequence = <<<<"recv", BitfieldFFFC>>>>

\* The bitfield [0xFF, 0b11111100] was received for 15 pieces.
C7_Witness ==
    /\ rcf_piece_count = 15
    /\ Len(message_sequence) >= 1
    /\ FirstMessage = BitfieldFFFC
    /\ rcf_pc = "returned"

\* C8: a bitfield whose length is not ceil(piece_count / 8) is answered with
\* BitfieldSizeMismatch{expected: ceil(piece_count / 8), received: its
\* length}, whatever its bits (the size is checked first), and Interested
\* is not sent.
C8_BitfieldSizeMismatch ==
    (/\ Len(message_sequence) >= 1
     /\ FirstMessage.kind = "Bitfield"
     /\ Len(FirstMessage.bytes) # DivCeil(rcf_piece_count, 8)) =>
       /\ rcf_result = BitfieldSizeMismatch(DivCeil(rcf_piece_count, 8),
                                            Len(FirstMessage.bytes))
       /\ rcf_pc = "returned"
       /\ Len(message_sequence) = 1

\* A bitfield too short, with a bit missing as well.
C8_Witness ==
    /\ rcf_piece_count = 15
    /\ Len(message_sequence) = 1
    /\ FirstMessage = Bitfield(<<254>>)
    /\ rcf_result.kind = "BitfieldSizeMismatch"

\* C9: a first message that is not a Bitfield is answered with
\* UnexpectedMessage{expected: "bitfield", received: the message}; a second
\* message that is not Unchoke, an Unknown one included, with
\* UnexpectedMessage{expected: "unchoke", received: the message}.  In both
\* cases the function has returned, with nothing sent or received since.
C9_UnexpectedMessage ==
    /\ (/\ Len(message_sequence) >= 1
        /\ FirstMessage.kind # "Bitfield") =>
          /\ rcf_result = unexpected_message_error("bitfield", FirstMessage)
          /\ rcf_pc = "returned"
          /\ Len(message_sequence) = 1
    /\ (/\ Len(message_sequence) >= 3
        /\ message_sequence[3][2].kind # "Unchoke") =>
          /\ rcf_result = unexpected_message_error("unchoke", message_sequence[3][2])
          /\ rcf_pc = "returned"
          /\ Len(message_sequence) = 3

\* An Unknown message with the id of Unchoke came second.
C9_Witness ==
    /\ Len(message_sequence) = 3
    /\ message_sequence[3][2] = Unknown(1, <<>>)
    /\ rcf_result.kind = "UnexpectedMessage"
    /\ rcf_pc = "returned"

(***************************************************************************)
(* Properties of PieceComposer (specification SpecComposer).               *)
(***************************************************************************)
\* C10: as long as the blocks appended since the composer was last empty
\* are the beginning of a partition of one piece (ascending offset, no gap,
\* no overlap), append_block returned None if they do not make the piece
\* yet, and the piece (its index, the concatenation of the blocks) if they
\* do, the composer being empty again.  This holds of a run that follows a
\* completed piece too: the composer accepts the first block of another
\* piece.
C10_PartitionMakesOnePiece ==
    (cmp_run.partition /\ cmp_run.blocks >= 1) =>
       IF Len(cmp_run.data) = PieceSize(cmp_file_info, Unwrap(cmp_run.piece_index))
       THEN /\ cmp_ret = RetPiece([index |-> Unwrap(cmp_run.piece_index),
                                   data |-> cmp_run.data])
            /\ cmp_composer = PieceComposer_new
       ELSE /\ cmp_ret = RetNone
            /\ cmp_composer = [piece_index |-> cmp_run.piece_index,
                               buffer |-> cmp_run.data]

\* A piece made of several blocks, after another piece was completed.
C10_Witness ==
    /\ cmp_run.partition
    /\ cmp_run.after_piece
    /\ cmp_run.blocks >= 2
    /\ cmp_ret.kind = "Piece"

\* The block of the latest call of append_block, and the composer before it.
LastBlock == Unwrap(cmp_last.block)
ComposerBefore == cmp_last.before

\* C11: a block out of its place in the stream (its offset is not the number
\* of bytes buffered so far, or it repeats the block before it) is answered
\* with the unexpected-block-offset error, expected = the bytes buffered so
\* far, actual = the block's offset; this for a repeated last or only block
\* of a piece too.
C11_OutOfPlaceIsOffsetError ==
    (/\ cmp_last.block # None
     /\ ComposerBefore.piece_index \in {None, Some(LastBlock.piece_index)}
     /\ \/ LastBlock.offset # Len(ComposerBefore.buffer)
        \/ cmp_last.duplicate) =>
       cmp_ret = unexpected_block_offset(Len(ComposerBefore.buffer), LastBlock.offset)

\* C12: while a piece is being assembled, a block of another piece is
\* answered with UnexpectedPieceIndex{expected: the piece being assembled,
\* actual: the block's piece}, whatever the block's offset; the composer's
\* buffer is as before the call.
C12_OtherPieceIsRejected ==
    (/\ cmp_last.block # None
     /\ ComposerBefore.piece_index # None
     /\ LastBlock.piece_index # Unwrap(ComposerBefore.piece_index)) =>
       /\ cmp_ret = unexpected_piece_index(Unwrap(ComposerBefore.piece_index),
                                           LastBlock.piece_index)
       /\ cmp_composer.buffer = ComposerBefore.buffer
       /\ cmp_composer.piece_index = ComposerBefore.piece_index

\* A block of another piece, at a wrong offset as well, arrived after some
\* bytes of a piece.
C12_Witness ==
    /\ cmp_last.block # None
    /\ Len(ComposerBefore.buffer) >= 1
    /\ LastBlock.piece_index # Unwrap(ComposerBefore.piece_index)
    /\ LastBlock.offset # Len(ComposerBefore.buffer)
    /\ Len(LastBlock.data) >= 1
    /\ cmp_ret.kind = "UnexpectedPieceIndex"

\* The length of a piece as the torrent defines it: piece_length, and what
\* is left of the file for the last piece.
EffectiveLength(fi, piece_index) ==
    IF piece_index = piece_count(fi) - 1
    THEN fi.file_length - piece_index * fi.piece_length
    ELSE fi.piece_length

\* C13: a block accepted for a piece of the file makes the composer return
\* the Piece exactly when the bytes buffered reach the effective length of
\* the piece: file_length - index * piece_length for the last piece,
\* piece_length for any other.
C13_EmitsAtEffectiveLength ==
    (/\ cmp_last.block # None
     /\ cmp_ret.kind \in {"None", "Piece"}
     /\ LastBlock.piece_index < piece_count(cmp_file_info)) =>
       LET buffered == Len(ComposerBefore.buffer) + Len(LastBlock.data)
           len == EffectiveLength(cmp_file_info, LastBlock.piece_index)
       IN  /\ Len(ComposerBefore.buffer) < len
           /\ (cmp_ret.kind = "Piece") <=> (buffered >= len)
           /\ cmp_ret.kind = "Piece" =>
                 Unwrap(cmp_ret.piece) =
                    [index |-> LastBlock.piece_index,
                     data |-> ComposerBefore.buffer \o LastBlock.data]

\* The last piece, shorter than piece_length, was returned at its length.
C13_Witness ==
    /\ cmp_last.block # None
    /\ cmp_ret.kind = "Piece"
    /\ LastBlock.piece_index = piece_count(cmp_file_info) - 1
    /\ Len(Unwrap(cmp_ret.piece).data) < cmp_file_info.piece_length
    /\ cmp_run.partition

(***************************************************************************)
(* Properties of RequestEmitter (specification SpecEmitter).               *)
(***************************************************************************)
\* The bytes of the file a request asks for.
RequestedBytes(fi, request) ==
    LET start == request.piece_index * fi.piece_length + request.offset
    IN  start..(start + request.length - 1)

\* The number of bytes requested by the first n requests.
RECURSIVE RequestedLength(_, _)
RequestedLength(requests, n) ==
    IF n = 0 THEN 0 ELSE RequestedLength(requests, n - 1) + requests[n].length

\* C14: the requests sent so far are for pieces in ascending index and,
\* within a piece, for the offsets 0, B, 2B, ... with length
\* min(B, L - offset), L the effective length of the piece; the byte ranges
\* requested are pairwise disjoint and make up the beginning of the file,
\* which is the whole file [0, file_length) exactly when the emitter is
\* exhausted.
C14_RequestsCoverTheFile ==
    LET B == em_emitter.block_length
        n == Len(em_sent)
    IN  /\ \A i \in 1..n :
             LET r == em_sent[i]
                 L == EffectiveLength(em_file_info, r.piece_index)
             IN  /\ r.piece_index < piece_count(em_file_info)
                 /\ r.offset % B = 0
                 /\ r.offset < L
                 /\ r.length = Min(B, L - r.offset)
                 /\ IF i = 1 THEN r.piece_index = 0 /\ r.offset = 0
                    ELSE LET q == em_sent[i - 1]
                         IN  \/ /\ r.piece_index = q.piece_index
                                /\ r.offset = q.offset + B
                             \/ /\ r.piece_index = q.piece_index + 1
                                /\ r.offset = 0
                                /\ q.offset + q.length =
                                      EffectiveLength(em_file_info, q.piece_index)
        /\ \A i, j \in 1..n :
             i # j => RequestedBytes(em_file_info, em_sent[i])
                         \cap RequestedBytes(em_file_info, em_sent[j]) = {}
        /\ UNION {RequestedBytes(em_file_info, em_sent[i]) : i \in 1..n}
              = 0..(RequestedLength(em_sent, n) - 1)
        /\ RequestedLength(em_sent, n) <= em_file_info.file_length
        /\ (em_emitter.piece_index >= piece_count(em_file_info))
              <=> (RequestedLength(em_sent, n) = em_file_info.file_length)

\* A file with a short last piece and a block length that does not divide
\* the piece length was requested to its end.
C14_Witness ==
    /\ em_emitter.piece_index >= piece_count(em_file_info)
    /\ piece_count(em_file_info) >= 2
    /\ em_file_info.file_length % em_file_info.piece_length # 0
    /\ em_file_info.piece_length % em_emitter.block_length # 0
    /\ Len(em_sent) >= 3

\* C15: a call of request_next_block on an exhausted emitter
\* (piece_index >= piece_count) returns Ok, writes no request to the channel
\* and leaves the emitter as it was.
C15_ExhaustedEmitterDoesNothing ==
    (/\ em_last.called
     /\ em_last.before.piece_index >= piece_count(em_file_info)) =>
       /\ em_last.ok
       /\ em_sent = em_last.sent_before
       /\ em_emitter = em_last.before

\* request_next_block was called after the last block of the last piece
\* had been requested.
C15_Witness ==
    /\ em_last.called
    /\ em_last.before.piece_index >= piece_count(em_file_info)
    /\ RequestedLength(em_sent, Len(em_sent)) = em_file_info.file_length

(***************************************************************************)
(* Properties of PeerMessage (specification SpecPeerMessage).              *)
(***************************************************************************)
\* The latest call was receive, on a stream with a frame (after any
\* keep-alives); that frame.
ReceivedFrame == pm_last.op = "receive" /\ pm_last.frame # None
LastFrame == Unwrap(pm_last.frame)

\* C16: receive on a stream of zero-length prefixes followed by a frame
\* reads all of them and returns what it returns for the frame alone: a
\* message for every frame it decodes, not an error, with the stream left
\* after the frame.
C16_KeepAlivesAreSkipped ==
    ReceivedFrame =>
       /\ pm_last.result = receive(FrameBytes(LastFrame)).result
       /\ pm_last.result.kind \in {"Ok", "Panic"}
       /\ pm_last.result.kind = "Panic" =>
             (LastFrame.id = 7 /\ Len(LastFrame.payload) < 8)
       /\ pm_last.result.kind = "Ok" =>
             /\ pm_src = StreamBytes(pm_frames)
             /\ Unwrap(pm_last.result.message).kind
                   \in {"Unchoke", "Bitfield", "Piece", "Unknown"}

\* Two keep-alives, then a Piece, which was returned.
C16_Witness ==
    /\ ReceivedFrame
    /\ pm_last.keep_alives >= 2
    /\ pm_last.result.kind = "Ok"
    /\ Unwrap(pm_last.result.message) = PieceMessage(1, 10, <<1, 2>>)

\* C17: receive applied to the bytes written by send returns the message
\* sent, for Interested and for Request.
C17_SendThenReceiveIsIdentity ==
    (ReceivedFrame /\ LastFrame.echo # None) =>
       pm_last.result = PmOk(Unwrap(LastFrame.echo))

\* C18: for a frame with an id other than 1, 5 and 7, and any payload,
\* receive returns Ok(Unknown{id, payload}), the payload being the bytes
\* that follow the id, and leaves the stream at the next frame.
C18_UnknownIdIsReturned ==
    (ReceivedFrame /\ LastFrame.id \notin {1, 5, 7}) =>
       /\ pm_last.result = PmOk(Unknown(LastFrame.id, LastFrame.payload))
       /\ pm_src = StreamBytes(pm_frames)

\* A frame with id 9 and a payload was received, another frame behind it.
C18_Witness ==
    /\ ReceivedFrame
    /\ LastFrame = Frame(9, <<255>>)
    /\ pm_last.result.kind = "Ok"
    /\ Len(pm_frames) >= 1
    /\ ~pm_frames[1].keep_alive

(***************************************************************************)
(* Properties of HandshakeMessage (specification SpecHandshake).           *)
(***************************************************************************)
\* The 68 bytes of a handshake: 19, "BitTorrent protocol", eight zero bytes,
\* the info hash, the peer id.
HandshakeLayout(info_hash, peer_id) ==
    <<19, 66, 105, 116, 84, 111, 114, 114, 101, 110, 116, 32,
      112, 114, 111, 116, 111, 99, 111, 108, 0, 0, 0, 0, 0, 0, 0, 0>>
        \o info_hash \o peer_id

\* C19: send writes exactly the 68 bytes 19, "BitTorrent protocol", 8 zero
\* bytes, info_hash, peer_id; receive reads exactly 68 bytes, and on the
\* bytes written by send it returns a message equal to the one sent.
C19_HandshakeLayoutAndRoundTrip ==
    /\ hs_last.op = "send" =>
          /\ Len(hs_dst) = 68
          /\ Len(Unwrap(hs_last.message).info_hash) = 20
          /\ Len(Unwrap(hs_last.message).peer_id) = 20
          /\ hs_dst = HandshakeLayout(Unwrap(hs_last.message).info_hash,
                                      Unwrap(hs_last.message).peer_id)
    /\ (hs_last.op = "receive" /\ hs_last.result.kind = "Ok") => hs_last.read = 68
    /\ (hs_last.op = "receive" /\ hs_last.message # None) =>
          /\ hs_last.result = HsOk(Unwrap(hs_last.message))
          /\ hs_src = StreamOfHandshakes(hs_unread)

\* A handshake with an info hash and a peer id of different bytes was sent
\* and read back, another handshake behind it on the stream.
C19_Witness ==
    /\ hs_last.op = "receive"
    /\ hs_last.echo
    /\ hs_last.result.kind = "Ok"
    /\ Unwrap(hs_last.result.message).info_hash = [i \in 1..20 |-> i]
    /\ Unwrap(hs_last.result.message).peer_id = [i \in 1..20 |-> 255 - i]
    /\ hs_src # <<>>

(***************************************************************************)
(* Properties of SeqPeerConnector (specification SpecConnector).           *)
(***************************************************************************)
\* The attempts among the first n that connected, in order.
RECURSIVE Connected(_, _, _)
Connected(attempts, outcomes, n) ==
    IF n = 0 THEN <<>>
    ELSE Connected(attempts, outcomes, n - 1)
            \o (IF outcomes[n] THEN <<attempts[n]>> ELSE <<>>)

\* C20: the attempts are made on the addresses in input order, each started
\* inside a next() of the consumer and only once the attempt before it has
\* finished; outside next() no attempt has been made past the stream last
\* yielded; the streams yielded are those of the attempts that connected,
\* in input order, the failed ones skipped.
C20_SequentialInInputOrder ==
    /\ Len(sc_attempts) = sc_index
    /\ Len(sc_attempts) <= Len(sc_addrs)
    /\ \A i \in 1..Len(sc_attempts) :
          sc_attempts[i] = [addr |-> sc_addrs[i], index |-> i - 1]
    /\ Len(sc_outcomes) = Len(sc_attempts) - (IF sc_connecting = None THEN 0 ELSE 1)
    /\ sc_connecting # None =>
          /\ sc_pc = "next"
          /\ sc_connecting = Some(sc_attempts[Len(sc_attempts)].addr)
    /\ \A i \in 1..Len(sc_yielded) :
          /\ sc_yielded[i].ok
          /\ sc_yielded[i] = [ok |-> TRUE,
                              addr |-> Connected(sc_attempts, sc_outcomes,
                                                 Len(sc_outcomes))[i].addr,
                              index |-> Connected(sc_attempts, sc_outcomes,
                                                  Len(sc_outcomes))[i].index]
    /\ Len(sc_yielded) = Len(Connected(sc_attempts, sc_outcomes, Len(sc_outcomes)))
    /\ (sc_pc = "idle" /\ sc_attempts # <<>>) =>
          /\ sc_outcomes[Len(sc_outcomes)]
          /\ sc_yielded[Len(sc_yielded)].index = sc_index - 1
    /\ sc_pc = "done" => sc_index = Len(sc_addrs)

\* A failed attempt, then two streams yielded, the second of them after
\* the consumer asked again.
C20_Witness ==
    /\ sc_outcomes = <<FALSE, TRUE, TRUE>>
    /\ Len(sc_yielded) = 2
    /\ sc_yielded[1].index = 1
    /\ sc_pc = "idle"

(***************************************************************************)
(* Properties of the parallel connector.                                   *)
(***************************************************************************)
YieldedTokens == {pp_yielded[i] : i \in 1..Len(pp_yielded)}
ReturnedNone == pp_pc = "idle" /\ pp_ret.kind = "None"
ConnectedInMap == ProbesIn(poller.probes, "Connected")

\* What the connector yields: every input entry at most once (with distinct
\* addresses every address at most once), only probes a readiness event
\* showed connected, never one an event showed errored.
YieldsOnlyConnectedOnce ==
    /\ \A i, j \in 1..Len(pp_yielded) : pp_yielded[i] = pp_yielded[j] => i = j
    /\ (\A i, j \in 1..Len(pp_addrs) : pp_addrs[i] = pp_addrs[j] => i = j) =>
          \A i, j \in 1..Len(pp_yielded) :
             pp_addrs[pp_yielded[i] + 1] = pp_addrs[pp_yielded[j] + 1] => i = j
    /\ YieldedTokens \subseteq pp_seen.connected
    /\ YieldedTokens \cap pp_seen.errored = {}

C23_YieldedIsDeregisteredAndBlocking ==
    /\ \A t \in YieldedTokens :
          /\ t \notin poller.poll
          /\ t \notin DOMAIN poller.probes
          /\ pp_sockets[t].blocking
    /\ (ReturnedNone /\ pp_ret.cause = "switch_error") =>
          \E t \in pp_seen.dropped :
             /\ t \notin YieldedTokens
             /\ ~pp_sockets[t].blocking
    /\ pp_pc = "idle" /\ pp_ret.kind = "Some" => pp_sockets[pp_ret.token].blocking

\* A stream was yielded, and after it a switch failed.
C23_Witness ==
    /\ ReturnedNone /\ pp_ret.cause = "switch_error"
    /\ Len(pp_yielded) >= 1

\* The probes that are no longer in the map of the poller.
RemovedProbes == Tokens(pp_addrs) \ DOMAIN poller.probes

\* The calls of the progress callback are numbered 1, 2, 3, ...
CountsFromOne == \A i \in 1..Len(pp_progress) : pp_progress[i][2] = i

RemovedNow == (DOMAIN poller.probes) \ (DOMAIN poller'.probes)
NotDeregisteredNow ==
    IF pp_pc # "idle" /\ pp_pc' = "idle"
          /\ pp_ret'.cause \in {"deregister_error", "remove_error"}
    THEN pp_seen'.dropped \ pp_seen.dropped
    ELSE {}
ProgressNow == SubSeq(pp_progress', Len(pp_progress) + 1, Len(pp_progress'))

\* A step calls the callback once for each probe it removes and
\* deregisters, with the address of that probe, and for no other.
ProgressStep ==
    /\ SubSeq(pp_progress', 1, Len(pp_progress)) = pp_progress
    /\ Len(ProgressNow) = Cardinality(RemovedNow \ NotDeregisteredNow)
    /\ {ProgressNow[i][1] : i \in 1..Len(ProgressNow)} =
          {pp_addrs[t + 1] : t \in RemovedNow \ NotDeregisteredNow}
    /\ Cardinality(NotDeregisteredNow) <= 1
    /\ NotDeregisteredNow \subseteq RemovedNow
    /\ RemovedNow \subseteq (pp_seen'.connected \cup pp_seen'.errored)

Decoded(method, kind) == bd_called = method /\ bd_origin.kind = kind

\* C24: for every well-formed value, decode returns the value the text
\* denotes in which every dict, at any nesting depth, carries the digest of
\* exactly its own source bytes, from its 'd' up to and including its
\* matching 'e'; decode_dict on the text of a dict does the same.
C24_DictSha1IsOverItsOwnBytes ==
    /\ Decoded("decode", "value") =>
          /\ bd_result.kind = "Ok"
          /\ bd_result.value = bd_origin.value
    /\ (Decoded("decode_dict", "value") /\ bd_origin.value.type = "Dict") =>
          /\ bd_result.kind = "Ok"
          /\ BencDict(bd_result.value) = bd_origin.value
          /\ bd_result.value.sha1 = Sha1_calculate(bd_raw_data)

\* A dict within a dict within a dict was decoded, each with its own digest.
C24_Witness ==
    /\ Decoded("decode", "value")
    /\ bd_result.kind = "Ok"
    /\ bd_result.value.type = "Dict"
    /\ \E k1 \in DOMAIN bd_result.value.values :
          LET inner == bd_result.value.values[k1]
          IN  /\ inner.type = "Dict"
              /\ inner.sha1 # bd_result.value.sha1
              /\ \E k2 \in DOMAIN inner.values :
                    /\ inner.values[k2].type = "Dict"
                    /\ inner.values[k2].sha1 # inner.sha1

\* C25: decoding "<len(s)>:" + s + trailing gives the byte string s, bytes
\* that are not UTF-8 included, and leaves the trailing bytes as the
\* decoder's remaining data.
C25_ByteStringRoundTrip ==
    Decoded("decode", "string") =>
       /\ bd_result.kind = "Ok"
       /\ bd_result.value = BencByteString(bd_origin.s)
       /\ rest_data(bd_raw_data, bd_result.pos) = bd_origin.trailing

\* A string with a byte that is not UTF-8 was decoded and bytes were left.
C25_Witness ==
    /\ Decoded("decode", "string")
    /\ bd_result.kind = "Ok"
    /\ \E i \in 1..Len(bd_origin.s) : bd_origin.s[i] = 255
    /\ bd_origin.trailing # <<>>
    /\ rest_data(bd_raw_data, bd_result.pos) = bd_origin.trailing


\* The bytes of data before the first byte b, and whether there is one.
Has(data, b) == \E i \in 1..Len(data) : data[i] = b
Before(data, b) == SubSeq(data, 1, position(data, b))

\* A number written with an optional sign.
IsSigned(str, signs) == str # <<>> /\ str[1] \in signs /\ IsDigits(Tail(str))

\* decode() was called on data that is read as a byte string, or as an
\* integer.
DecodedAsString ==
    /\ bd_called = "decode"
    /\ bd_raw_data # <<>>
    /\ bd_raw_data[1] \notin
          {INT_START_DELIMITER, DICT_START_DELIMITER, LIST_START_DELIMITER}
DecodedAsInt ==
    /\ bd_called = "decode"
    /\ bd_raw_data # <<>>
    /\ bd_raw_data[1] = INT_START_DELIMITER

\* The length field, the bytes after its ':', and the content of an integer.
LengthField == Before(bd_raw_data, STRING_DELIMITER)
AfterLengthField == Len(bd_raw_data) - Len(LengthField) - 1
IntContent == Before(Tail(bd_raw_data), TRAILING_DELIMITER)

C27_TruncatedInputGivesError ==
    /\ Decoded("decode", "prefix") => bd_result.kind = "Err"
    /\ (/\ Decoded("decode_dict", "prefix")
        /\ (bd_raw_data = <<>> \/ bd_raw_data[1] = DICT_START_DELIMITER)) =>
          bd_result.kind = "Err"


(***************************************************************************)
(* Properties of torrent::Info (specification SpecTorrent).                *)
(***************************************************************************)
\* C28: every Info that deserialize returns has at least one piece hash,
\* (length - 1) / piece_length + 1 piece hashes, each of 20 bytes, and its
\* pieces blob was a whole number of hashes: a metainfo whose pieces,
\* length and piece length do not fit is turned down with an error.
C28_InfoSizesAreConsistent ==
    (ti_pc = "returned" /\ ti_result.ok) =>
       LET info == ti_result.info
       IN  /\ Len(info.pieces) > 0
           /\ info.piece_length > 0
           /\ info.length > 0
           /\ (info.length - 1) \div info.piece_length + 1 = Len(info.pieces)
           /\ \A i \in 1..Len(info.pieces) : Len(info.pieces[i]) = SHA1_SIZE
           /\ Len(ti_internal.pieces) % SHA1_SIZE = 0


(***************************************************************************)
(* Properties of tracker::get_peer_list_from_response (specification       *)
(* SpecTracker).                                                           *)
(***************************************************************************)
\* The addresses of the peers of a response, in the order of its list.
ResolvedInOrder(entries) ==
    Concat([i \in 1..Len(entries) |-> to_socket_addrs(entries[i].ip, entries[i].port).addrs])

\* Every entry has an ip and a port of their types, and its host resolves.
AllPeersResolve(entries) ==
    \A i \in 1..Len(entries) :
       /\ entries[i].shape = "peer"
       /\ to_socket_addrs(entries[i].ip, entries[i].port).ok

\* C29: get_peer_list_from_response returns an error when the body is a
\* dict with no usable peers list (one with a failure reason, say), or when
\* an entry of the list lacks ip or port or does not resolve; for a
\* well-formed response it returns the resolved addresses, flattened in the
\* order of the list.
C29_PeerListOrError ==
    tr_pc = "returned" =>
       /\ tr_origin.kind \in {"failure", "peers_is_int"} => tr_result.kind = "Err"
       /\ (tr_origin.kind = "peers" /\ ~AllPeersResolve(tr_origin.entries)) =>
             tr_result.kind = "Err"
       /\ (tr_origin.kind = "peers" /\ AllPeersResolve(tr_origin.entries)) =>
             tr_result = PeersOk(ResolvedInOrder(tr_origin.entries))


(***************************************************************************)
(* The request window of FileDownloader::download (specification Spec).    *)
(***************************************************************************)
\* W, and the requests sent that no received block stands against.
W == request_emitter.queue_length
InFlight == Len(sent) - blocks_received

\* download() is past request_first_blocks and has received nothing yet.
BeforeFirstReceive == pc = "loop" /\ blocks_received = 0

\* download() stands after a replenish that went well: after the first
\* requests, or after the request_next_block of a turn.
AfterReplenish == pc \in {"loop", "returned"} /\ result # IoError

\* C30 as stated: W requests are sent before the first receive; the
\* requests sent minus the blocks received never exceed W, and are W after
\* each replenish while the emitter is not exhausted.
C30_WindowOfW ==
    /\ BeforeFirstReceive => Len(sent) = W
    /\ InFlight <= W
    /\ (AfterReplenish /\ ~exhausted(request_emitter, file_info)) => InFlight = W

\* A turn of the loop that received a block called request_next_block once,
\* before the block went to the composer: one request more is sent, or none
\* when the emitter is exhausted, or the request failed and download()
\* returned its error with the composer untouched.
ReplenishedOnce ==
    blocks_received' = blocks_received + 1 =>
       \/ /\ ~exhausted(request_emitter, file_info)
          /\ Len(sent') = Len(sent) + 1
       \/ /\ exhausted(request_emitter, file_info)
          /\ sent' = sent
       \/ /\ ~exhausted(request_emitter, file_info)
          /\ sent' = sent
          /\ result' = IoError
          /\ piece_composer' = piece_composer

\* C30, amended: before the first receive W requests are sent, or fewer
\* when they are all the blocks of the file; each received block is
\* followed by one request_next_block before it goes to the composer; the
\* requests sent minus the blocks received never exceed W, and are W after
\* each replenish while the emitter is not exhausted.
C30_WindowOfWOrWholeFile ==
    /\ [](BeforeFirstReceive =>
             \/ Len(sent) = W
             \/ Len(sent) < W /\ exhausted(request_emitter, file_info))
    /\ [](InFlight <= W)
    /\ []((AfterReplenish /\ ~exhausted(request_emitter, file_info)) => InFlight = W)
    /\ [][ReplenishedOnce]_vars

\* A block was received and answered with a request that keeps W = 2
\* requests in flight, more blocks being left to request.
C30_Witness ==
    /\ pc = "loop"
    /\ blocks_received >= 1
    /\ W >= 2
    /\ InFlight = W
    /\ ~exhausted(request_emitter, file_info)

(***************************************************************************)
(* Properties of PeerChannel::handshake (specification SpecPeerChannel).   *)
(***************************************************************************)
\* A call made on the stream before the i-th one that returned Ok.
DoneBefore(i, call, arg, moved) ==
    \E j \in 1..(i - 1) : ch_calls[j] = StreamCall(call, arg, moved, TRUE)

\* C31: handshake sets the handshake read timeout before any byte is
\* written or read, writes its own 68-byte handshake before it reads the
\* reply, reads exactly 68 bytes, and sets the message read timeout only
\* after the whole reply is read; the remote peer id of the channel is
\* bytes 48..68 of the reply; when the write, the read or a timeout change
\* fails no channel is returned.
C31_HandshakeSequence ==
    /\ \A i \in 1..Len(ch_calls) :
         /\ ch_calls[i].call \in {"write_all", "read_exact"} =>
               ch_calls[1] = StreamCall("set_read_timeout", HANDSHAKE_TIMEOUT, 0, TRUE)
         /\ ch_calls[i].call = "read_exact" =>
               /\ DoneBefore(i, "write_all", 68, 68)
               /\ ch_calls[i].arg = 68
               /\ ch_calls[i].ok => ch_calls[i].moved = 68
         /\ (ch_calls[i].call = "set_read_timeout"
               /\ ch_calls[i].arg = MESSAGE_READ_TIMEOUT) =>
               DoneBefore(i, "read_exact", 68, 68)
         /\ ~ch_calls[i].ok =>
               /\ i = Len(ch_calls)
               /\ ch_pc = "returned"
               /\ ch_result = ChIoError
    /\ ch_pc \in {"send", "receive"} =>
          /\ ch_stream.read_timeout = Some(HANDSHAKE_TIMEOUT)
          /\ ch_pc = "send" => ch_stream.written = <<>>
    /\ ch_pc \in {"receive", "set_message_timeout", "peer_addr"} =>
          ch_stream.written = HandshakeLayout(ch_args.info_hash, ch_args.peer_id)
    /\ ch_result.kind = "Ok" =>
          /\ Unwrap(ch_result.channel).remote_id = SubSeq(ch_peer.bytes, 49, 68)
          /\ Unwrap(ch_result.channel).stream.read_timeout = Some(MESSAGE_READ_TIMEOUT)
          /\ ch_stream.unread = SubSeq(ch_peer.bytes, 69, Len(ch_peer.bytes))

\* handshake returned a channel on a stream where the peer wrote the first
\* bytes of a message right behind its handshake; they are left unread.
C31_Witness ==
    /\ ch_pc = "returned"
    /\ ch_result.kind = "Ok"
    /\ Len(ch_calls) = 5
    /\ Len(ch_stream.unread) = 5
    /\ Unwrap(ch_result.channel).remote_id = [i \in 1..20 |-> 255 - i]

\* C40: handshake returns a channel only if the reply carries the protocol
\* string "BitTorrent protocol" and the info hash this client sent.
C40_ChannelOnlyForSameTorrent ==
    ch_result.kind = "Ok" =>
        /\ ch_peer.message.pstrlen = Len(PROTOCOL_ID)
        /\ ch_peer.message.pstr = PROTOCOL_ID
        /\ ch_peer.message.info_hash = ch_args.info_hash

(***************************************************************************)
(* Properties of probe_peers_sequential (specification SpecProbePeers).    *)
(***************************************************************************)
\* The probe has returned Ok for some address.
SomeProbeSucceeded ==
    \E i \in 1..Len(pr_probes) : pr_probes[i].returned.kind = "Ok"

\* C33: the probe is called on the addresses in input order, with the
\* address and its index; the result is Some of what the first successful
\* probe returned, and no later address is probed; it is None if and only
\* if every probe failed; a failed probe does not stop the iteration.
C33_FirstSuccessfulProbe ==
    /\ Len(pr_probes) <= Len(pr_addrs)
    /\ \A i \in 1..Len(pr_probes) :
          /\ pr_probes[i].addr = pr_addrs[i]
          /\ pr_probes[i].index = i - 1
          /\ i < Len(pr_probes) => pr_probes[i].returned.kind = "Err"
    /\ pr_pc = "loop" => ~SomeProbeSucceeded
    /\ pr_pc = "returned" =>
          /\ SomeProbeSucceeded =>
                pr_result = Some(pr_probes[Len(pr_probes)].returned.value)
          /\ ~SomeProbeSucceeded =>
                /\ pr_result = None
                /\ Len(pr_probes) = Len(pr_addrs)
          /\ pr_result = None <=> ~SomeProbeSucceeded

\* The probe failed on the first address and succeeded on the second of
\* three; the third was not probed.
C33_Witness ==
    /\ pr_pc = "returned"
    /\ Len(pr_addrs) = 3
    /\ Len(pr_probes) = 2
    /\ pr_probes[1].returned.kind = "Err"
    /\ pr_result = Some("r2")

(***************************************************************************)
(* Properties of the UI loop (specification SpecUi).                       *)
(***************************************************************************)
\* The events of a task among the events handled, in the order handled.
HandledFrom(task) ==
    LET OfTask(entry) == entry.from = task
        entries == SelectSeq(ui_handled, OfTask)
    IN  [i \in 1..Len(entries) |-> entries[i].event]

\* The position of the last Probing or Downloading event handled, or 0.
LastProgressHandled ==
    LET at == {i \in 1..Len(ui_handled) :
                  ui_handled[i].event.kind \in {"Probing", "Downloading"}}
    IN  IF at = {} THEN 0 ELSE CHOOSE i \in at : \A j \in at : j <= i

\* The events that end the loop.
EndsLoop(event) == event.kind \in {"Completed", "Exit", "Error"}

\* The Error events a task's thread has sent.
ErrorsSent(task) ==
    {i \in 1..Len(ui_sent[task]) : ui_sent[task][i].kind = "Error"}

\* C34: the UI loop handles the events of each producer in the order the
\* producer sent them; the state displayed after a Probing or Downloading
\* event was handled holds the values of that event; the loop ends with Ok
\* on the first Completed or Exit and with the error of the task on the
\* first Error; a background task that returns an error sends exactly one
\* Error event.
C34_UiLoopHandlesEventsInOrder ==
    /\ \A task \in Tasks :
          HandledFrom(task) = SubSeq(ui_sent[task], 1, Len(HandledFrom(task)))
    /\ LastProgressHandled = 0 => app_state = DownloadState_Idle
    /\ LastProgressHandled > 0 =>
          LET event == ui_handled[LastProgressHandled].event
          IN  /\ app_state.kind = event.kind
              /\ app_state.current = event.current
              /\ app_state.total = event.total
              /\ event.kind = "Probing" => app_state.address = event.address
    /\ ui_pc = "recv" => ui_displayed = app_state
    /\ \A i \in 1..Len(ui_handled) :
          EndsLoop(ui_handled[i].event) =>
             /\ i = Len(ui_handled)
             /\ ui_pc = "returned"
             /\ ui_handled[i].event.kind \in {"Completed", "Exit"} => ui_result = UiOk
             /\ ui_handled[i].event.kind = "Error" =>
                   ui_result = UiErr(TaskError(ui_handled[i].from))
    /\ ui_result = UiOk =>
          ui_handled # <<>> /\ ui_handled[Len(ui_handled)].event.kind \in {"Completed", "Exit"}
    /\ \A task \in Tasks :
          /\ ui_threads[task] = "failed" =>
                /\ Cardinality(ErrorsSent(task)) = 1
                /\ ui_sent[task][Len(ui_sent[task])] = AppEvent_Error(TaskError(task))
          /\ ui_threads[task] # "failed" => ErrorsSent(task) = {}

\* The loop displayed a Downloading state, then handled a Resize of the
\* keyboard listener and ended on the Error of the download task, which
\* was sent before the Resize was handled.
C34_Witness ==
    /\ ui_pc = "returned"
    /\ ui_result = UiErr("download failed")
    /\ Len(ui_handled) >= 3
    /\ ui_displayed.kind = "Downloading"
    /\ \E i \in 1..Len(ui_handled) : ui_handled[i].event.kind = "Resize"
    /\ ui_threads["download"] = "failed"

(***************************************************************************)
(* Termination of download() with a well-behaved peer (specification       *)
(* SpecHonestFair).                                                        *)
(***************************************************************************)
\* The number of blocks of the file: the sum over its pieces of
\* ceil(length of the piece / block length).
BlocksInFile(fi, block_length) ==
    LET upto[n \in 0..piece_count(fi)] ==
            IF n = 0 THEN 0
            ELSE upto[n - 1] + DivCeil(piece_length(fi, n - 1, TRUE).value, block_length)
    IN  upto[piece_count(fi)]

\* C35: with a peer that answers every request in issuance order,
\* download() returns; it returns Ok after receiving exactly as many blocks
\* as the file has, the requests sent are as many, whatever the queue
\* length, and no request is left unanswered.
C35_HonestDownloadTerminates ==
    /\ <>(pc = "returned")
    /\ [](pc = "returned" =>
            /\ result.kind = "Ok"
            /\ blocks_received = BlocksInFile(file_info, request_emitter.block_length)
            /\ Len(sent) = BlocksInFile(file_info, request_emitter.block_length)
            /\ pending = <<>>)
    /\ [](blocks_received + Len(pending) = Len(sent))

\* download() returned a file of two pieces and three blocks, the last
\* piece shorter than the first, with one request in flight at a time.
C35_Witness ==
    /\ pc = "returned"
    /\ result.kind = "Ok"
    /\ request_emitter.queue_length = 1
    /\ piece_count(file_info) = 2
    /\ blocks_received = 3
    /\ file_info.file_length % file_info.piece_length # 0

(***************************************************************************)
(* What a failed or overrunning append_block leaves behind (specification  *)
(* SpecComposer), and the blocks no torrent has (specifications Spec and   *)
(* SpecPeerMessage).                                                       *)
(***************************************************************************)
\* C36: when append_block returns an error the composer is as it was
\* before the call, piece index and buffer; a first block rejected for its
\* offset leaves the composer with no piece index.
C36_ErrorLeavesComposerAsBefore ==
    (/\ cmp_last.block # None
     /\ cmp_ret.kind \in {"UnexpectedPieceIndex", "UnexpectedBlockOffset"}) =>
       /\ cmp_composer = ComposerBefore
       /\ ComposerBefore = PieceComposer_new => cmp_composer.piece_index = None

\* C37: a Piece returned by append_block holds exactly as many bytes as
\* the piece has in the file, whatever the sizes of the blocks; between
\* calls the buffer is empty when no piece is in progress, and shorter
\* than the piece in progress otherwise.
C37_PieceHasEffectiveLength ==
    /\ (cmp_ret.kind = "Piece"
          /\ Unwrap(cmp_ret.piece).index < piece_count(cmp_file_info)) =>
          Len(Unwrap(cmp_ret.piece).data) =
             EffectiveLength(cmp_file_info, Unwrap(cmp_ret.piece).index)
    /\ cmp_composer.piece_index = None => cmp_composer.buffer = <<>>
    /\ (cmp_composer.piece_index # None
          /\ Unwrap(cmp_composer.piece_index) < piece_count(cmp_file_info)) =>
          Len(cmp_composer.buffer) <
             EffectiveLength(cmp_file_info, Unwrap(cmp_composer.piece_index))

\* C38: whatever blocks the peer sends, download() returns Ok or an error;
\* no piece with an index of piece_count or more reaches the piece bounds
\* or the piece hashes.
C38_DownloadReturnsOkOrError ==
    /\ result.kind # "Panic"
    /\ piece # None => Unwrap(piece).index < piece_count(file_info)
    /\ piece_composer.piece_index # None =>
          Unwrap(piece_composer.piece_index) < piece_count(file_info)

\* C39: on every stream of bytes receive returns Ok or an io error; a
\* Piece frame with fewer than 8 bytes of payload is an error, and one
\* with exactly 8 is a Piece with an empty block.
C39_ReceiveReturnsOkOrError ==
    /\ pm_last.op = "receive" => pm_last.result.kind \in {"Ok", "Io"}
    /\ (ReceivedFrame /\ LastFrame.id = 7 /\ Len(LastFrame.payload) < 8) =>
          pm_last.result.kind = "Io"
    /\ (ReceivedFrame /\ LastFrame.id = 7 /\ Len(LastFrame.payload) = 8) =>
          /\ pm_last.result.kind = "Ok"
          /\ Unwrap(pm_last.result.message).kind = "Piece"
          /\ Unwrap(pm_last.result.message).bytes = <<>>

====
